---------------------------- MODULE Spec2Model ----------------------------
(***************************************************************************)
(* Model of the workflow linter of app/api/lint/route.ts: the POST         *)
(* handler, the lint function with its structural checks, its four line    *)
(* passes and its scorer.  A text is a sequence of lines, a line a         *)
(* sequence of one-character strings, so that the substring and regular    *)
(* expression tests of the code are computed character by character.       *)
(***************************************************************************)
EXTENDS Integers, Sequences, FiniteSets, TLC

(***************************************************************************)
(* JavaScript string primitives                                            *)
(***************************************************************************)
Digits == {"0","1","2","3","4","5","6","7","8","9"}
Upper == {"A","B","C","D","E","F","G","H","I","J","K","L","M",
          "N","O","P","Q","R","S","T","U","V","W","X","Y","Z"}
Lower == {"a","b","c","d","e","f","g","h","i","j","k","l","m",
          "n","o","p","q","r","s","t","u","v","w","x","y","z"}
AlphaNum == Digits \cup Upper \cup Lower

\* \s of a regular expression, restricted to the characters of the alphabet
IsWs(c) == c \in {" ", "\t", "\n"}

\* String.prototype.startsWith at a position (0-based)
MatchAt(s, p, i) ==
  /\ i >= 0
  /\ i + Len(p) <= Len(s)
  /\ \A k \in 1..Len(p) : s[i + k] = p[k]

StartsWith(s, p) == MatchAt(s, p, 0)

\* String.prototype.indexOf: 0-based position of the first occurrence, -1 if none
IndexOf(s, p) ==
  LET hits == {i \in 0..(Len(s) - Len(p)) : MatchAt(s, p, i)}
  IN IF hits = {} THEN -1 ELSE CHOOSE i \in hits : \A j \in hits : i <= j

Includes(s, p) == IndexOf(s, p) >= 0

\* line.search(/\S/): 0-based position of the first non-blank character, -1 if none
SearchNonWs(s) ==
  LET hits == {i \in 1..Len(s) : ~IsWs(s[i])}
  IN IF hits = {} THEN -1 ELSE (CHOOSE i \in hits : \A j \in hits : i <= j) - 1

\* String.prototype.trim
Trim(s) ==
  LET hits == {i \in 1..Len(s) : ~IsWs(s[i])}
  IN IF hits = {} THEN <<>>
     ELSE SubSeq(s, CHOOSE i \in hits : \A j \in hits : i <= j,
                    CHOOSE i \in hits : \A j \in hits : i >= j)

\* length of the longest run of characters of class cls starting at 0-based position i
RECURSIVE RunLen(_, _, _)
RunLen(s, i, cls) ==
  IF i < Len(s) /\ s[i + 1] \in cls THEN 1 + RunLen(s, i + 1, cls) ELSE 0

\* Array.prototype.findIndex: 0-based, -1 if none; hits[i] is the callback's result for element i
FindIndex(hits) ==
  IF \E i \in 1..Len(hits) : hits[i]
  THEN (CHOOSE i \in 1..Len(hits) : hits[i] /\ \A j \in 1..(i - 1) : ~hits[j]) - 1
  ELSE -1

\* the tracking of a trailing run of whitespace: number of blanks from position i
RECURSIVE WsRun(_, _)
WsRun(s, i) == IF i < Len(s) /\ IsWs(s[i + 1]) THEN 1 + WsRun(s, i + 1) ELSE 0

RECURSIVE Concat(_)
Concat(ss) == IF ss = <<>> THEN <<>> ELSE Head(ss) \o Concat(Tail(ss))

(***************************************************************************)
(* Reference data, loaded once at start-up (route.ts:51-73).  A data set   *)
(* whose file could not be loaded is the empty list or the empty map.      *)
(***************************************************************************)
\* variant: the expression built with the g flag, so that test() keeps lastIndex
SecretRegexSticky == TRUE

\* new RegExp(p.pattern): no flags, so the expression is not global
SecretRegexGlobal == FALSE

\* the patterns of secrets.json: a literal prefix followed by exactly n characters of a class
AwsKeyPattern ==
  [name |-> <<"A","W","S"," ","A","c","c","e","s","s"," ","K","e","y"," ","I","D">>, prefix |-> <<"A","K","I","A">>, cls |-> Digits \cup Upper, n |-> 16]

GithubPatPattern ==
  [name |-> <<"G","i","t","H","u","b"," ","P","e","r","s","o","n","a","l"," ","A","c","c","e","s","s"," ","T","o","k","e","n">>, prefix |-> <<"g","h","p","_">>, cls |-> AlphaNum, n |-> 36]

\* the user-controlled contexts of contexts.json, in file order
CtxIssueTitle == <<"g","i","t","h","u","b",".","e","v","e","n","t",".","i","s","s","u","e",".","t","i","t","l","e">>
CtxHeadRef == <<"g","i","t","h","u","b",".","h","e","a","d","_","r","e","f">>

UbuntuLatest == <<"u","b","u","n","t","u","-","l","a","t","e","s","t">>
SelfHosted == <<"s","e","l","f","-","h","o","s","t","e","d">>

ActCheckout == <<"a","c","t","i","o","n","s","/","c","h","e","c","k","o","u","t">>
ActSetupNode == <<"a","c","t","i","o","n","s","/","s","e","t","u","p","-","n","o","d","e">>

\* the data sets with every file loaded
FullStore ==
  [runners  |-> <<SelfHosted, UbuntuLatest>>,
   contexts |-> <<CtxIssueTitle, CtxHeadRef>>,
   secrets  |-> <<AwsKeyPattern, GithubPatPattern>>,
   permissions |-> <<<<"c","o","n","t","e","n","t","s">>, <<"i","s","s","u","e","s">>>>,
   eventKeys |-> <<[k |-> <<"p","u","l","l","_","r","e","q","u","e","s","t","_","t","a","r","g","e","t">>, v |-> <<<<"b","r","a","n","c","h","e","s">>, <<"t","y","p","e","s">>>>],
                   [k |-> <<"p","u","s","h">>, v |-> <<<<"b","r","a","n","c","h","e","s">>, <<"p","a","t","h","s">>, <<"t","a","g","s">>>>],
                   [k |-> <<"s","c","h","e","d","u","l","e">>, v |-> <<>>]>>,
   events   |-> <<<<"p","u","l","l","_","r","e","q","u","e","s","t","_","t","a","r","g","e","t">>, <<"p","u","s","h">>, <<"s","c","h","e","d","u","l","e">>, <<"w","o","r","k","f","l","o","w","_","r","u","n">>>>,
   actions  |-> <<[k |-> ActCheckout, v |-> <<<<"r","e","f">>, <<"t","o","k","e","n">>>>],
                  [k |-> ActSetupNode, v |-> <<<<"n","o","d","e","-","v","e","r","s","i","o","n">>>>]>>]

\* the data sets when no file could be loaded: loadJsonData returned null for each
EmptyStore ==
  [runners |-> <<>>, contexts |-> <<>>, secrets |-> <<>>, permissions |-> <<>>,
   eventKeys |-> <<>>, events |-> <<>>, actions |-> <<>>]

Stores == {FullStore, EmptyStore}

\* the data sets when one file, or every file, could not be loaded
DataStores ==
  Stores \cup
  { [FullStore EXCEPT !.events = <<>>], [FullStore EXCEPT !.permissions = <<>>],
    [FullStore EXCEPT !.secrets = <<>>], [FullStore EXCEPT !.contexts = <<>>],
    [FullStore EXCEPT !.actions = <<>>], [FullStore EXCEPT !.eventKeys = <<>>],
    [FullStore EXCEPT !.runners = <<>>] }

\* the data sets with every file loaded, with the entries of schema.json and actions.json
\* for the workflow_dispatch event and the actions/github-script action
LineStore ==
  [FullStore EXCEPT
     !.eventKeys = @ \o <<[k |-> <<"w","o","r","k","f","l","o","w","_","d","i","s","p","a","t","c","h">>, v |-> <<<<"i","n","p","u","t","s">>>>]>>,
     !.events = @ \o <<<<"w","o","r","k","f","l","o","w","_","d","i","s","p","a","t","c","h">>>>,
     !.actions = @ \o <<[k |-> <<"a","c","t","i","o","n","s","/","g","i","t","h","u","b","-","s","c","r","i","p","t">>, v |-> <<<<"s","c","r","i","p","t">>>>]>>]

\* Array.prototype.includes
InList(x, list) == \E i \in 1..Len(list) : list[i] = x

\* key in map, for a map kept as a list of [k, v] entries
Has(map, key) == \E i \in 1..Len(map) : map[i].k = key

\* map[key], for a key of the map
Get(map, key) == (map[CHOOSE i \in 1..Len(map) : map[i].k = key]).v


(***************************************************************************)
(* Values of a parsed document: what YAML.parse returns (route.ts:276).    *)
(* t is the JavaScript type, s the text of a string, kids the entries of   *)
(* a mapping ([k, v], in document order) or of a sequence (k is the index).*)
(***************************************************************************)
VUndef == [t |-> "undefined", s |-> <<>>, kids |-> <<>>]
VNull == [t |-> "null", s |-> <<>>, kids |-> <<>>]
VStr(str) == [t |-> "string", s |-> str, kids |-> <<>>]
VNum(digits) == [t |-> "number", s |-> digits, kids |-> <<>>]
VMap(entries) == [t |-> "map", s |-> <<>>, kids |-> entries]
VSeq(items) ==
  [t |-> "array", s |-> <<>>,
   kids |-> [i \in 1..Len(items) |-> [k |-> <<ToString(i - 1)>>, v |-> items[i]]]]

\* JavaScript truthiness: !!v
Truthy(v) ==
  CASE v.t \in {"undefined", "null"} -> FALSE
    [] v.t = "string" -> v.s # <<>>
    [] v.t = "number" -> v.s # <<"0">>
    [] OTHER -> TRUE

\* typeof v === 'object'
IsObject(v) == v.t \in {"null", "map", "array"}

\* v[key] (v?.[key] for a null or undefined v): own properties only
Prop(v, key) ==
  IF v.t \in {"map", "array"} /\ Has(v.kids, key) THEN Get(v.kids, key) ELSE VUndef


(***************************************************************************)
(* The requests.  A document is a list of top-level sections; a section    *)
(* is its lines, its key and the value YAML.parse gives the key.  The text *)
(* of the document is the lines of its sections joined by newlines, and    *)
(* the keys of one document are distinct.                                  *)
(***************************************************************************)
MaxSteps == 2

Section(lines, key, val) == [lines |-> lines, key |-> key, val |-> val, ok |-> TRUE]

SecName == Section(<<<<"n","a","m","e",":"," ","C","I">>>>, <<"n","a","m","e">>, VStr(<<"C","I">>))

SecOnPush ==
  Section(<<<<"o","n",":">>, <<" "," ","p","u","s","h",":">>, <<" "," "," "," ","b","r","a","n","c","h",":"," ","m","a","i","n">>>>, <<"o","n">>,
          VMap(<<[k |-> <<"p","u","s","h">>, v |-> VMap(<<[k |-> <<"b","r","a","n","c","h">>, v |-> VStr(<<"m","a","i","n">>)]>>)]>>))

SecOnScalar == Section(<<<<"o","n",":"," ","p","u","s","h">>>>, <<"o","n">>, VStr(<<"p","u","s","h">>))

SecOnTarget ==
  Section(<<<<"o","n",":">>, <<" "," ","p","u","l","l","_","r","e","q","u","e","s","t","_","t","a","r","g","e","t",":">>>>, <<"o","n">>,
          VMap(<<[k |-> <<"p","u","l","l","_","r","e","q","u","e","s","t","_","t","a","r","g","e","t">>, v |-> VNull]>>))

SecPermAll == Section(<<<<"p","e","r","m","i","s","s","i","o","n","s",":"," ","w","r","i","t","e","-","a","l","l">>>>, <<"p","e","r","m","i","s","s","i","o","n","s">>, VStr(<<"w","r","i","t","e","-","a","l","l">>))

SecPermMap ==
  Section(<<<<"p","e","r","m","i","s","s","i","o","n","s",":">>, <<" "," ","c","o","n","t","e","n","t","s",":"," ","r","e","a","d">>>>, <<"p","e","r","m","i","s","s","i","o","n","s">>,
          VMap(<<[k |-> <<"c","o","n","t","e","n","t","s">>, v |-> VStr(<<"r","e","a","d">>)]>>))

SecPermBad ==
  Section(<<<<"p","e","r","m","i","s","s","i","o","n","s",":">>, <<" "," ","c","o","n","t","e","n","t","s",":"," ","a","d","m","i","n">>>>, <<"p","e","r","m","i","s","s","i","o","n","s">>,
          VMap(<<[k |-> <<"c","o","n","t","e","n","t","s">>, v |-> VStr(<<"a","d","m","i","n">>)]>>))

\* a comment line: it is text of the document and adds nothing to the parsed value
Comment(line) == [lines |-> <<line>>, key |-> <<>>, val |-> VUndef, ok |-> TRUE]

SecCommentKey == Comment(<<"#"," ","A","K","I","A","A","B","C","D","E","F","G","H","I","J","K","L","M","N","O","P">>)
SecCommentSafe == Comment(<<"#"," ","A","K","I","A","A","B","C","D","E","F","G","H","I","J","K","L","M","N","O","P"," ","$","{","{"," ","s","e","c","r","e","t","s",".","K","E","Y"," ","}","}">>)

\* an unterminated flow sequence: YAML.parse throws
SecBroken == [lines |-> <<<<"e","n","v",":"," ","[">>>>, key |-> <<"e","n","v">>, val |-> VUndef, ok |-> FALSE]

\* one-line steps: the key and the value of the step's only entry
Step(key, val) == [key |-> key, val |-> val]

StepVocab ==
  { Step(<<"u","s","e","s">>, <<"a","c","t","i","o","n","s","/","c","h","e","c","k","o","u","t","@","m","a","i","n">>),
    Step(<<"u","s","e","s">>, <<"a","c","t","i","o","n","s","/","c","h","e","c","k","o","u","t","@","H","E","A","D">>),
    Step(<<"u","s","e","s">>, <<"a","c","t","i","o","n","s","/","c","h","e","c","k","o","u","t","@","m","a","i","n","l","i","n","e">>),
    Step(<<"u","s","e","s">>, <<"a","c","t","i","o","n","s","/","c","h","e","c","k","o","u","t","@","b","3","9","b","5","2","d","1","2","1","3","e","9","6","0","0","4","b","f","c","b","1","c","6","1","a","8","a","6","f","a","8","a","b","8","4","f","3","e","8">>),
    Step(<<"r","u","n">>, <<"e","c","h","o"," ","A","K","I","A","A","B","C","D","E","F","G","H","I","J","K","L","M","N","O","P">>),
    Step(<<"r","u","n">>, <<"e","c","h","o"," ","A","K","I","A","A","B","C","D","E","F","G","H","I","J","K","L","M","N","O","P"," ","$","{","{"," ","s","e","c","r","e","t","s",".","K","E","Y"," ","}","}">>),
    Step(<<"r","u","n">>, <<"e","c","h","o"," ","$","{","{"," ","g","i","t","h","u","b",".","e","v","e","n","t",".","i","s","s","u","e",".","t","i","t","l","e"," ","}","}"," ","$","{","{"," ","g","i","t","h","u","b",".","h","e","a","d","_","r","e","f"," ","}","}">>),
    Step(<<"r","u","n">>, <<"e","c","h","o"," ","w","r","i","t","e","-","a","l","l">>),
    Step(<<"r","u","n">>, <<"c","u","r","l"," ","h","t","t","p","s",":","/","/","g","e","t",".","d","o","c","k","e","r",".","c","o","m"," ","|"," ","s","h">>) }

StepLine(st) == <<" "," "," "," "," "," ","-"," ">> \o st.key \o <<":"," ">> \o st.val
StepValue(st) == VMap(<<[k |-> st.key, v |-> VStr(st.val)]>>)

\* the sequences of at most n steps
RECURSIVE StepSeqs(_)
StepSeqs(n) ==
  IF n = 0 THEN {<<>>}
  ELSE LET shorter == StepSeqs(n - 1)
       IN shorter \cup {Append(ss, st) : ss \in {x \in shorter : Len(x) = n - 1}, st \in StepVocab}

\* a jobs section with one job, test, and the given steps
SecJobs(steps) ==
  Section(<<<<"j","o","b","s",":">>, <<" "," ","t","e","s","t",":">>, <<" "," "," "," ","r","u","n","s","-","o","n",":"," ","u","b","u","n","t","u","-","l","a","t","e","s","t">>, <<" "," "," "," ","s","t","e","p","s",":">>>>
            \o [i \in 1..Len(steps) |-> StepLine(steps[i])],
          <<"j","o","b","s">>,
          VMap(<<[k |-> <<"t","e","s","t">>,
                  v |-> VMap(<<[k |-> <<"r","u","n","s","-","o","n">>, v |-> VStr(<<"u","b","u","n","t","u","-","l","a","t","e","s","t">>)],
                               [k |-> <<"s","t","e","p","s">>,
                                v |-> IF steps = <<>> THEN VNull
                                      ELSE VSeq([i \in 1..Len(steps) |-> StepValue(steps[i])])]>>)]>>))

OnChoices == {<<>>, <<SecOnPush>>, <<SecOnScalar>>, <<SecOnTarget>>}
PermChoices == {<<>>, <<SecPermAll>>, <<SecPermMap>>, <<SecPermBad>>}
TailChoices == {<<>>, <<SecBroken>>}

\* documents that vary the steps of the job, and documents that vary the other sections
Documents ==
  {p \o <<SecJobs(ss)>> : p \in {<<>>, <<SecPermAll>>, <<SecPermBad>>},
                          ss \in StepSeqs(MaxSteps)}
  \cup
  {o \o p \o j \o t : o \in OnChoices, p \in PermChoices,
                      j \in {<<>>, <<SecJobs(<<>>)>>}, t \in TailChoices}

\* the documents of the runs that remember an earlier response
HistoryDocuments ==
  {c \o <<SecJobs(<<>>)>> \o p \o t :
     c \in {<<>>, <<SecCommentKey>>},
     p \in {<<>>, <<SecPermAll>>},
     t \in {<<>>, <<SecCommentSafe>>}}

\* on sections: absent, a scalar, a sequence, event keys, an unknown event, schedules
DataOn ==
  LET cronLine(c) == <<" "," "," "," ","-"," ","c","r","o","n",":"," ","'">> \o c \o <<"'">>
      schedule(cs) ==
        Section(<<<<"o","n",":">>, <<" "," ","s","c","h","e","d","u","l","e",":">>>> \o [i \in 1..Len(cs) |-> cronLine(cs[i])], <<"o","n">>,
                VMap(<<[k |-> <<"s","c","h","e","d","u","l","e">>,
                        v |-> VSeq([i \in 1..Len(cs) |-> VMap(<<[k |-> <<"c","r","o","n">>, v |-> VStr(cs[i])]>>)])]>>))
      three == <<"*"," ","*"," ","*">>
      five == <<"0"," ","0"," ","*"," ","*"," ","0">>
      six == <<"0"," ","0"," ","*"," ","*"," ","0"," ","2","0","2","4">>
  IN { <<>>,
       <<SecOnScalar>>,
       <<Section(<<<<"o","n",":"," ","[","p","u","s","h",","," ","f","o","r","k","]">>>>, <<"o","n">>, VSeq(<<VStr(<<"p","u","s","h">>), VStr(<<"f","o","r","k">>)>>))>>,
       <<Section(<<<<"o","n",":">>, <<" "," ","p","u","s","h",":">>, <<" "," "," "," ","p","a","t","h","s",":"," ","s","r","c">>, <<" "," "," "," ","b","r","a","n","c","h",":"," ","m","a","i","n">>, <<" "," "," "," ","B","r","a","n","c","h",":"," ","m","a","i","n">>>>,
                 <<"o","n">>,
                 VMap(<<[k |-> <<"p","u","s","h">>,
                         v |-> VMap(<<[k |-> <<"p","a","t","h","s">>, v |-> VStr(<<"s","r","c">>)],
                                      [k |-> <<"b","r","a","n","c","h">>, v |-> VStr(<<"m","a","i","n">>)],
                                      [k |-> <<"B","r","a","n","c","h">>, v |-> VStr(<<"m","a","i","n">>)]>>)]>>))>>,
       <<Section(<<<<"o","n",":">>, <<" "," ","p","u","s","h","h",":">>>>, <<"o","n">>, VMap(<<[k |-> <<"p","u","s","h","h">>, v |-> VNull]>>))>>,
       <<Section(<<<<"o","n",":">>, <<" "," ","s","c","h","e","d","u","l","e",":">>, <<" "," "," "," ","-"," ","c","r","o","n",":"," ","5">>>>, <<"o","n">>,
                 VMap(<<[k |-> <<"s","c","h","e","d","u","l","e">>,
                         v |-> VSeq(<<VMap(<<[k |-> <<"c","r","o","n">>, v |-> VNum(<<"5">>)]>>)>>)]>>))>>,
       <<Section(<<<<"o","n",":">>, <<" "," ","s","c","h","e","d","u","l","e",":">>, <<" "," "," "," ","c","r","o","n",":"," ","'","*"," ","*"," ","*","'">>>>, <<"o","n">>,
                 VMap(<<[k |-> <<"s","c","h","e","d","u","l","e">>,
                         v |-> VMap(<<[k |-> <<"c","r","o","n">>, v |-> VStr(<<"*"," ","*"," ","*">>)]>>)]>>))>> }
     \cup {<<schedule(cs)>> : cs \in {<<three>>, <<five>>, <<three, six>>, <<five, three>>}}

\* permissions sections: absent, a scalar, a sequence, and mappings
DataPerm ==
  LET perm(scope, text, level) ==
        Section(<<<<"p","e","r","m","i","s","s","i","o","n","s",":">>, <<" "," ">> \o scope \o <<":"," ">> \o text>>, <<"p","e","r","m","i","s","s","i","o","n","s">>,
                VMap(<<[k |-> scope, v |-> level]>>))
  IN { <<>>, <<SecPermAll>>, <<SecPermMap>>, <<SecPermBad>>,
       <<perm(<<"d","e","p","l","o","y">>, <<"w","r","i","t","e">>, VStr(<<"w","r","i","t","e">>))>>,
       <<perm(<<"c","o","n","t","e","n","t","s">>, <<"5">>, VNum(<<"5">>))>>,
       <<Section(<<<<"p","e","r","m","i","s","s","i","o","n","s",":"," ","[","r","e","a","d","]">>>>, <<"p","e","r","m","i","s","s","i","o","n","s">>, VSeq(<<VStr(<<"r","e","a","d">>)>>))>> }

\* jobs sections: absent, null, a scalar, a sequence, and mappings of jobs
DataJobs ==
  LET hi == VSeq(<<VMap(<<[k |-> <<"r","u","n">>, v |-> VStr(<<"e","c","h","o"," ","h","i">>)]>>)>>)
      ubuntu == [k |-> <<"r","u","n","s","-","o","n">>, v |-> VStr(UbuntuLatest)]
      called == VMap(<<[k |-> <<"u","s","e","s">>, v |-> VStr(<<"o","r","g","/","r","e","p","o","/",".","g","i","t","h","u","b","/","w","o","r","k","f","l","o","w","s","/","c","i",".","y","m","l","@","v","1">>)]>>)
  IN { <<>>,
       <<Section(<<<<"j","o","b","s",":">>>>, <<"j","o","b","s">>, VNull)>>,
       <<Section(<<<<"j","o","b","s",":"," ","b","u","i","l","d">>>>, <<"j","o","b","s">>, VStr(<<"b","u","i","l","d">>))>>,
       <<Section(<<<<"j","o","b","s",":"," ","[","b","u","i","l","d","]">>>>, <<"j","o","b","s">>, VSeq(<<VStr(<<"b","u","i","l","d">>)>>))>>,
       <<Section(<<<<"j","o","b","s",":">>, <<" "," ","c","a","l","l",":">>, <<" "," "," "," ","u","s","e","s",":"," ","o","r","g","/","r","e","p","o","/",".","g","i","t","h","u","b","/","w","o","r","k","f","l","o","w","s","/","c","i",".","y","m","l","@","v","1">>>>,
                 <<"j","o","b","s">>, VMap(<<[k |-> <<"c","a","l","l">>, v |-> called]>>))>>,
       <<Section(<<<<"j","o","b","s",":">>, <<" "," ","t","e","s","t",":">>, <<" "," "," "," ","s","t","e","p","s",":">>, <<" "," "," "," "," "," ","-"," ","r","u","n",":"," ","e","c","h","o"," ","h","i">>>>,
                 <<"j","o","b","s">>, VMap(<<[k |-> <<"t","e","s","t">>, v |-> VMap(<<[k |-> <<"s","t","e","p","s">>, v |-> hi]>>)]>>))>>,
       <<Section(<<<<"j","o","b","s",":">>, <<" "," ","t","e","s","t",":">>>>, <<"j","o","b","s">>, VMap(<<[k |-> <<"t","e","s","t">>, v |-> VNull]>>))>>,
       <<Section(<<<<"j","o","b","s",":">>, <<" "," ","t","x","s","t",":">>, <<" "," "," "," ","u","s","e","s",":"," ","o","r","g","/","r","e","p","o","/",".","g","i","t","h","u","b","/","w","o","r","k","f","l","o","w","s","/","c","i",".","y","m","l","@","v","1">>,
                   <<" "," ","t",".","s","t",":">>, <<" "," "," "," ","r","u","n","s","-","o","n",":"," ","u","b","u","n","t","u","-","l","a","t","e","s","t">>>>,
                 <<"j","o","b","s">>,
                 VMap(<<[k |-> <<"t","x","s","t">>, v |-> called],
                        [k |-> <<"t",".","s","t">>, v |-> VMap(<<ubuntu>>)]>>))>>,
       <<Section(<<<<"j","o","b","s",":">>, <<" "," ","b","(",":">>, <<" "," "," "," ","r","u","n","s","-","o","n",":"," ","u","b","u","n","t","u","-","l","a","t","e","s","t">>>>,
                 <<"j","o","b","s">>, VMap(<<[k |-> <<"b","(">>, v |-> VMap(<<ubuntu>>)]>>))>>,
       <<Section(<<<<"j","o","b","s",":">>, <<" "," ","a",":">>, <<" "," "," "," ","r","u","n","s","-","o","n",":"," ","m","y","-","b","o","x">>, <<" "," "," "," ","s","t","e","p","s",":">>, <<" "," "," "," "," "," ","-"," ","r","u","n",":"," ","e","c","h","o"," ","h","i">>,
                   <<" "," ","b",":">>, <<" "," "," "," ","r","u","n","s","-","o","n",":"," ","$","{","{"," ","m","a","t","r","i","x",".","o","s"," ","}","}">>, <<" "," "," "," ","s","t","e","p","s",":">>, <<" "," "," "," "," "," ","-"," ","r","u","n",":"," ","e","c","h","o"," ","h","i">>>>,
                 <<"j","o","b","s">>,
                 VMap(<<[k |-> <<"a">>,
                         v |-> VMap(<<[k |-> <<"r","u","n","s","-","o","n">>, v |-> VStr(<<"m","y","-","b","o","x">>)],
                                      [k |-> <<"s","t","e","p","s">>, v |-> hi]>>)],
                        [k |-> <<"b">>,
                         v |-> VMap(<<[k |-> <<"r","u","n","s","-","o","n">>, v |-> VStr(<<"$","{","{"," ","m","a","t","r","i","x",".","o","s"," ","}","}">>)],
                                      [k |-> <<"s","t","e","p","s">>, v |-> hi]>>)]>>))>> }

\* the documents of the runs that vary the reference data and the shape of the parsed tree:
\* each family varies one section beside a job that is in order, and one document
\* has a finding of every pass
DataDocuments ==
  LET pinned == Step(<<"u","s","e","s">>, <<"a","c","t","i","o","n","s","/","c","h","e","c","k","o","u","t","@","b","3","9","b","5","2","d","1","2","1","3","e","9","6","0","0","4","b","f","c","b","1","c","6","1","a","8","a","6","f","a","8","a","b","8","4","f","3","e","8">>)
      good == SecJobs(<<pinned>>)
      allOn ==
        Section(<<<<"o","n",":">>, <<" "," ","p","u","s","h",":">>, <<" "," "," "," ","b","r","a","n","c","h","e","s",":">>, <<" "," "," "," "," "," ","-"," ","'","v","\\","d","+","'">>, <<" "," "," "," ","b","r","a","n","c","h",":"," ","m","a","i","n">>>>,
                <<"o","n">>,
                VMap(<<[k |-> <<"p","u","s","h">>,
                        v |-> VMap(<<[k |-> <<"b","r","a","n","c","h","e","s">>, v |-> VSeq(<<VStr(<<"v","\\","d","+">>)>>)],
                                     [k |-> <<"b","r","a","n","c","h">>, v |-> VStr(<<"m","a","i","n">>)]>>)]>>))
      allJobs ==
        Section(<<<<"j","o","b","s",":">>, <<" "," ","t","e","s","t",":">>, <<" "," "," "," ","r","u","n","s","-","o","n",":"," ","u","b","u","n","t","u","-","l","a","t","e","s","t">>, <<" "," "," "," ","s","t","e","p","s",":">>,
                  <<" "," "," "," "," "," ","-"," ","u","s","e","s",":"," ","a","c","t","i","o","n","s","/","c","h","e","c","k","o","u","t","@","m","a","i","n">>, <<" "," "," "," "," "," "," "," ","w","i","t","h",":">>, <<" "," "," "," "," "," "," "," "," "," ","d","e","p","t","h",":"," ","1">>,
                  <<" "," "," "," "," "," ","-"," ","r","u","n",":"," ","e","c","h","o"," ","A","K","I","A","A","B","C","D","E","F","G","H","I","J","K","L","M","N","O","P">>,
                  <<" "," "," "," "," "," ","-"," ","r","u","n",":"," ","e","c","h","o"," ","$","{","{"," ","g","i","t","h","u","b",".","h","e","a","d","_","r","e","f"," ","}","}">>>>,
                <<"j","o","b","s">>,
                VMap(<<[k |-> <<"t","e","s","t">>,
                        v |-> VMap(<<[k |-> <<"r","u","n","s","-","o","n">>, v |-> VStr(UbuntuLatest)],
                                     [k |-> <<"s","t","e","p","s">>,
                                      v |-> VSeq(<<VMap(<<[k |-> <<"u","s","e","s">>, v |-> VStr(<<"a","c","t","i","o","n","s","/","c","h","e","c","k","o","u","t","@","m","a","i","n">>)],
                                                          [k |-> <<"w","i","t","h">>,
                                                           v |-> VMap(<<[k |-> <<"d","e","p","t","h">>, v |-> VNum(<<"1">>)]>>)]>>),
                                                   VMap(<<[k |-> <<"r","u","n">>, v |-> VStr(<<"e","c","h","o"," ","A","K","I","A","A","B","C","D","E","F","G","H","I","J","K","L","M","N","O","P">>)]>>),
                                                   VMap(<<[k |-> <<"r","u","n">>, v |-> VStr(<<"e","c","h","o"," ","$","{","{"," ","g","i","t","h","u","b",".","h","e","a","d","_","r","e","f"," ","}","}">>)]>>)>>)]>>)]>>))
  IN {o \o <<good>> : o \in DataOn}
     \cup {<<SecName>> \o p \o <<good>> : p \in DataPerm}
     \cup {o \o j : o \in {<<>>, <<SecName, SecOnScalar>>}, j \in DataJobs}
     \cup {<<allOn, SecPermBad, allJobs>>, <<SecPermAll, SecBroken>>}

\* the documents of the runs that vary the lines the section trackers read: glob
\* sections, with-blocks, on-blocks, runner values and run scripts
LineDocuments ==
  LET jobs(runsOn, runner, stepLines, steps) ==
        Section(<<<<"j","o","b","s",":">>, <<" "," ","t","e","s","t",":">>, <<" "," "," "," ","r","u","n","s","-","o","n",":"," ">> \o runsOn, <<" "," "," "," ","s","t","e","p","s",":">>>> \o stepLines,
                <<"j","o","b","s">>,
                VMap(<<[k |-> <<"t","e","s","t">>,
                        v |-> VMap(<<[k |-> <<"r","u","n","s","-","o","n">>, v |-> runner],
                                     [k |-> <<"s","t","e","p","s">>, v |-> VSeq(steps)]>>)]>>))
      ubuntu(stepLines, steps) == jobs(UbuntuLatest, VStr(UbuntuLatest), stepLines, steps)
      step(entries) == VMap(entries)
      done == step(<<[k |-> <<"r","u","n">>, v |-> VStr(<<"e","c","h","o"," ","d","o","n","e">>)]>>)
      readme ==
        Section(<<<<"j","o","b","s",":">>, <<" "," ","t","e","s","t",":">>, <<" "," "," "," ","r","u","n","s","-","o","n",":"," ","u","b","u","n","t","u","-","l","a","t","e","s","t">>>>, <<"j","o","b","s">>,
                VMap(<<[k |-> <<"t","e","s","t">>,
                        v |-> VMap(<<[k |-> <<"r","u","n","s","-","o","n">>, v |-> VStr(UbuntuLatest)]>>)]>>))
      quoted ==
        jobs(<<"[","\"","s","e","l","f","-","h","o","s","t","e","d","\"",",","\"","x","6","4","\"","]">>, VSeq(<<VStr(SelfHosted), VStr(<<"x","6","4">>)>>),
             <<<<" "," "," "," "," "," ","-"," ","r","u","n",":"," ","e","c","h","o"," ","d","o","n","e">>>>, <<done>>)
      globOn ==
        Section(<<<<"o","n",":">>, <<" "," ","p","u","s","h",":">>, <<" "," "," "," ","b","r","a","n","c","h","e","s",":">>, <<" "," "," "," "," "," ","#"," ","r","e","l","e","a","s","e"," ","l","i","n","e","s">>, <<>>,
                  <<" "," "," "," "," "," ","-"," ","'","v","\\","w","\\","d","'">>, <<" "," "," "," "," "," ","-"," ","m","a","i","n">>, <<" "," "," "," ","t","a","g","s",":">>, <<" "," "," "," "," "," ","-"," ","v","\\","S">>>>,
                <<"o","n">>,
                VMap(<<[k |-> <<"p","u","s","h">>,
                        v |-> VMap(<<[k |-> <<"b","r","a","n","c","h","e","s">>,
                                      v |-> VSeq(<<VStr(<<"v","\\","w","\\","d">>), VStr(<<"m","a","i","n">>)>>)],
                                     [k |-> <<"t","a","g","s">>, v |-> VSeq(<<VStr(<<"v","\\","S">>)>>)]>>)]>>))
      grep == ubuntu(<<<<" "," "," "," "," "," ","-"," ","r","u","n",":"," ","g","r","e","p"," ","'","\\","d","'"," ","l","o","g">>>>,
                     <<step(<<[k |-> <<"r","u","n">>, v |-> VStr(<<"g","r","e","p"," ","'","\\","d","'"," ","l","o","g">>)]>>)>>)
      filter ==
        ubuntu(<<<<" "," "," "," "," "," ","-"," ","u","s","e","s",":"," ","d","o","r","n","y","/","p","a","t","h","s","-","f","i","l","t","e","r","@","v","3">>, <<" "," "," "," "," "," "," "," ","w","i","t","h",":">>, <<" "," "," "," "," "," "," "," "," "," ","p","a","t","h","s",":">>,
                 <<" "," "," "," "," "," "," "," "," "," "," "," ","-"," ","s","r","c">>, <<" "," "," "," "," "," ","-"," ","r","u","n",":"," ","g","r","e","p"," ","'","\\","d","'"," ","l","o","g">>>>,
               <<step(<<[k |-> <<"u","s","e","s">>, v |-> VStr(<<"d","o","r","n","y","/","p","a","t","h","s","-","f","i","l","t","e","r","@","v","3">>)],
                        [k |-> <<"w","i","t","h">>,
                         v |-> VMap(<<[k |-> <<"p","a","t","h","s">>, v |-> VSeq(<<VStr(<<"s","r","c">>)>>)]>>)]>>),
                 step(<<[k |-> <<"r","u","n">>, v |-> VStr(<<"g","r","e","p"," ","'","\\","d","'"," ","l","o","g">>)]>>)>>)
      script ==
        ubuntu(<<<<" "," "," "," "," "," ","-"," ","u","s","e","s",":"," ","a","c","t","i","o","n","s","/","g","i","t","h","u","b","-","s","c","r","i","p","t","@","v","7">>, <<" "," "," "," "," "," "," "," ","w","i","t","h",":">>,
                 <<" "," "," "," "," "," "," "," "," "," ","s","c","r","i","p","t",":"," ","|">>, <<" "," "," "," "," "," "," "," "," "," "," "," ","o","w","n","e","r",":"," ","m","e">>, <<" "," "," "," "," "," "," "," "," "," ","b","o","g","u","s",":"," ","1">>,
                 <<" "," "," "," "," "," ","-"," ","u","s","e","s",":"," ","a","c","t","i","o","n","s","/","s","e","t","u","p","-","n","o","d","e","@","v","4">>, <<" "," "," "," "," "," "," "," ","w","i","t","h",":">>,
                 <<" "," "," "," "," "," "," "," "," "," ","n","o","d","e","-","v","e","r","s","i","o","n",":"," ","2","0">>, <<" "," "," "," "," "," ","-"," ","r","u","n",":"," ","e","c","h","o"," ","d","o","n","e">>>>,
               <<step(<<[k |-> <<"u","s","e","s">>, v |-> VStr(<<"a","c","t","i","o","n","s","/","g","i","t","h","u","b","-","s","c","r","i","p","t","@","v","7">>)],
                        [k |-> <<"w","i","t","h">>,
                         v |-> VMap(<<[k |-> <<"s","c","r","i","p","t">>, v |-> VStr(<<"o","w","n","e","r",":"," ","m","e">> \o <<"\n">>)],
                                      [k |-> <<"b","o","g","u","s">>, v |-> VNum(<<"1">>)]>>)]>>),
                 step(<<[k |-> <<"u","s","e","s">>, v |-> VStr(<<"a","c","t","i","o","n","s","/","s","e","t","u","p","-","n","o","d","e","@","v","4">>)],
                        [k |-> <<"w","i","t","h">>,
                         v |-> VMap(<<[k |-> <<"n","o","d","e","-","v","e","r","s","i","o","n">>, v |-> VNum(<<"2","0">>)]>>)]>>),
                 done>>)
      local ==
        ubuntu(<<<<" "," "," "," "," "," ","-"," ","u","s","e","s",":"," ","a","c","t","i","o","n","s","/","c","h","e","c","k","o","u","t","@","v","4">>, <<" "," "," "," "," "," ","-"," ","u","s","e","s",":"," ",".","/",".","g","i","t","h","u","b","/","a","c","t","i","o","n","s","/","s","e","t","u","p">>,
                 <<" "," "," "," "," "," "," "," ","w","i","t","h",":">>, <<" "," "," "," "," "," "," "," "," "," ","c","a","c","h","e",":"," ","n","p","m">>>>,
               <<step(<<[k |-> <<"u","s","e","s">>, v |-> VStr(<<"a","c","t","i","o","n","s","/","c","h","e","c","k","o","u","t","@","v","4">>)]>>),
                 step(<<[k |-> <<"u","s","e","s">>, v |-> VStr(<<".","/",".","g","i","t","h","u","b","/","a","c","t","i","o","n","s","/","s","e","t","u","p">>)],
                        [k |-> <<"w","i","t","h">>,
                         v |-> VMap(<<[k |-> <<"c","a","c","h","e">>, v |-> VStr(<<"n","p","m">>)]>>)]>>)>>)
      nested ==
        ubuntu(<<<<" "," "," "," "," "," ","-"," ","u","s","e","s",":"," ","a","c","t","i","o","n","s","/","g","i","t","h","u","b","-","s","c","r","i","p","t","@","v","7">>, <<" "," "," "," "," "," "," "," ","w","i","t","h",":">>,
                 <<" "," "," "," "," "," "," "," "," "," ","s","c","r","i","p","t",":"," ","|">>, <<" "," "," "," "," "," "," "," "," "," "," "," ","u","s","e","s",":"," ","a","c","t","i","o","n","s","/","c","h","e","c","k","o","u","t","@","v","4">>,
                 <<" "," "," "," "," "," "," "," "," "," ","b","o","g","u","s",":"," ","1">>, <<" "," "," "," "," "," ","-"," ","r","u","n",":"," ","e","c","h","o"," ","d","o","n","e">>>>,
               <<step(<<[k |-> <<"u","s","e","s">>, v |-> VStr(<<"a","c","t","i","o","n","s","/","g","i","t","h","u","b","-","s","c","r","i","p","t","@","v","7">>)],
                        [k |-> <<"w","i","t","h">>,
                         v |-> VMap(<<[k |-> <<"s","c","r","i","p","t">>,
                                       v |-> VStr(<<"u","s","e","s",":"," ","a","c","t","i","o","n","s","/","c","h","e","c","k","o","u","t","@","v","4">> \o <<"\n">>)],
                                      [k |-> <<"b","o","g","u","s">>, v |-> VNum(<<"1">>)]>>)]>>),
                 done>>)
      dispatch ==
        Section(<<<<"o","n",":">>, <<" "," ","w","o","r","k","f","l","o","w","_","d","i","s","p","a","t","c","h",":">>, <<" "," "," "," ","i","n","p","u","t","s",":">>, <<" "," "," "," "," "," ","t","a","g",":">>,
                  <<" "," "," "," "," "," "," "," ","t","y","p","e",":"," ","s","t","r","i","n","g">>, <<" "," ","p","u","s","h",":">>, <<" "," "," "," ","b","r","a","n","c","h","e","s",":">>, <<" "," "," "," "," "," ","-"," ","m","a","i","n">>,
                  <<" "," "," "," ","b","r","a","n","c","h",":"," ","m","a","i","n">>>>,
                <<"o","n">>,
                VMap(<<[k |-> <<"w","o","r","k","f","l","o","w","_","d","i","s","p","a","t","c","h">>,
                        v |-> VMap(<<[k |-> <<"i","n","p","u","t","s">>,
                                      v |-> VMap(<<[k |-> <<"t","a","g">>,
                                                    v |-> VMap(<<[k |-> <<"t","y","p","e">>,
                                                                  v |-> VStr(<<"s","t","r","i","n","g">>)]>>)]>>)]>>)],
                       [k |-> <<"p","u","s","h">>,
                        v |-> VMap(<<[k |-> <<"b","r","a","n","c","h","e","s">>, v |-> VSeq(<<VStr(<<"m","a","i","n">>)>>)],
                                     [k |-> <<"b","r","a","n","c","h">>, v |-> VStr(<<"m","a","i","n">>)]>>)]>>))
      titled == Section(<<<<"n","a","m","e",":"," ","$","{","{"," ","g","i","t","h","u","b",".","h","e","a","d","_","r","e","f"," ","}","}">>>>, <<"n","a","m","e">>, VStr(<<"$","{","{"," ","g","i","t","h","u","b",".","h","e","a","d","_","r","e","f"," ","}","}">>))
      echoes ==
        ubuntu(<<<<" "," "," "," "," "," ","-"," ","r","u","n",":"," ","|">>,
                 <<" "," "," "," "," "," "," "," "," "," ","e","c","h","o"," ","$","{","{"," ","g","i","t","h","u","b",".","e","v","e","n","t",".","i","s","s","u","e",".","t","i","t","l","e"," ","}","}"," ","$","{","{"," ","g","i","t","h","u","b",".","h","e","a","d","_","r","e","f"," ","}","}">>,
                 <<" "," "," "," "," "," "," "," "," "," ","g","i","t"," ","l","o","g"," ","$","{","{"," ","g","i","t","h","u","b",".","h","e","a","d","_","r","e","f"," ","}","}">>,
                 <<" "," "," "," "," "," ","-"," ","r","u","n",":"," ","e","c","h","o"," ","$","{","{"," ","g","i","t","h","u","b",".","h","e","a","d","_","r","e","f"," ","}","}">>,
                 <<" "," "," "," "," "," ","-"," ","u","s","e","s",":"," ","a","c","t","i","o","n","s","/","g","i","t","h","u","b","-","s","c","r","i","p","t","@","v","7">>, <<" "," "," "," "," "," "," "," ","w","i","t","h",":">>,
                 <<" "," "," "," "," "," "," "," "," "," ","s","c","r","i","p","t",":"," ","|">>, <<" "," "," "," "," "," "," "," "," "," "," "," ","e","c","h","o"," ","$","{","{"," ","g","i","t","h","u","b",".","h","e","a","d","_","r","e","f"," ","}","}">>>>,
               <<step(<<[k |-> <<"r","u","n">>,
                         v |-> VStr(<<"e","c","h","o"," ","$","{","{"," ","g","i","t","h","u","b",".","e","v","e","n","t",".","i","s","s","u","e",".","t","i","t","l","e"," ","}","}"," ","$","{","{"," ","g","i","t","h","u","b",".","h","e","a","d","_","r","e","f"," ","}","}">>
                                    \o <<"\n">> \o <<"g","i","t"," ","l","o","g"," ","$","{","{"," ","g","i","t","h","u","b",".","h","e","a","d","_","r","e","f"," ","}","}">> \o <<"\n">>)]>>),
                 step(<<[k |-> <<"r","u","n">>, v |-> VStr(<<"e","c","h","o"," ","$","{","{"," ","g","i","t","h","u","b",".","h","e","a","d","_","r","e","f"," ","}","}">>)]>>),
                 step(<<[k |-> <<"u","s","e","s">>, v |-> VStr(<<"a","c","t","i","o","n","s","/","g","i","t","h","u","b","-","s","c","r","i","p","t","@","v","7">>)],
                        [k |-> <<"w","i","t","h">>,
                         v |-> VMap(<<[k |-> <<"s","c","r","i","p","t">>,
                                       v |-> VStr(<<"e","c","h","o"," ","$","{","{"," ","g","i","t","h","u","b",".","h","e","a","d","_","r","e","f"," ","}","}">> \o <<"\n">>)]>>)]>>)>>)
      inside ==
        ubuntu(<<<<" "," "," "," "," "," ","-"," ","u","s","e","s",":"," ","a","c","t","i","o","n","s","/","g","i","t","h","u","b","-","s","c","r","i","p","t","@","v","7">>, <<" "," "," "," "," "," "," "," ","w","i","t","h",":">>,
                 <<" "," "," "," "," "," "," "," "," "," ","s","c","r","i","p","t",":"," ","|">>, <<" "," "," "," "," "," "," "," "," "," "," "," ","e","c","h","o"," ","$","{","{"," ","g","i","t","h","u","b",".","h","e","a","d","_","r","e","f"," ","}","}">>>>,
               <<step(<<[k |-> <<"u","s","e","s">>, v |-> VStr(<<"a","c","t","i","o","n","s","/","g","i","t","h","u","b","-","s","c","r","i","p","t","@","v","7">>)],
                        [k |-> <<"w","i","t","h">>,
                         v |-> VMap(<<[k |-> <<"s","c","r","i","p","t">>,
                                       v |-> VStr(<<"e","c","h","o"," ","$","{","{"," ","g","i","t","h","u","b",".","h","e","a","d","_","r","e","f"," ","}","}">> \o <<"\n">>)]>>)]>>)>>)
      plain == ubuntu(<<<<" "," "," "," "," "," ","-"," ","r","u","n",":"," ","e","c","h","o"," ","d","o","n","e">>>>, <<done>>)
  IN {<<SecOnPush, readme>>, <<SecOnPush, SecBroken>>}
     \cup {<<SecName, SecOnScalar, j>> : j \in {quoted, filter, script, local, nested, plain}}
     \cup {<<o, j>> : o \in {globOn, dispatch}, j \in {plain, grep, script}}
     \cup {<<titled, SecOnScalar, echoes>>, <<globOn, echoes>>, <<SecName, SecOnScalar, inside>>}

\* the request bodies: code is a non-empty text, the empty text, a number, or absent
Requests(docs) ==
  [codeType : {"string"}, doc : docs \cup {<<>>}, locale : {"en", "tr", "fr"}]
  \cup [codeType : {"undefined", "number"}, doc : {<<>>}, locale : {"en"}]

\* the text of a document, as code.split('\n') returns it; the empty text is one empty line
LinesOf(doc) == IF doc = <<>> THEN << <<>> >> ELSE Concat([i \in 1..Len(doc) |-> doc[i].lines])

\* YAML.parse(code): the root value, or a thrown error
YAMLParse(doc) ==
  LET keyed == SelectSeq(doc, LAMBDA sec : sec.key # <<>>)
  IN IF \E i \in 1..Len(doc) : ~doc[i].ok THEN [ok |-> FALSE, value |-> VUndef]
     ELSE IF keyed = <<>> THEN [ok |-> TRUE, value |-> VNull]
     ELSE [ok |-> TRUE,
           value |-> VMap([i \in 1..Len(keyed) |-> [k |-> keyed[i].key, v |-> keyed[i].val]])]


(***************************************************************************)
(* Findings.  title, message and recommendation are read from              *)
(* messages[locale] and the message is built from args, so a finding       *)
(* carries the locale and the arguments in their place.                    *)
(***************************************************************************)
Locales == {"en", "tr"}

Finding(ruleId, severity, category, line, column, snippet, args) ==
  [ruleId |-> ruleId, severity |-> severity, category |-> category,
   line |-> line, column |-> column, snippet |-> snippet, args |-> args, locale |-> ""]

\* the findings as pushed with msg = messages[locale]
Localise(fs, locale) == [i \in 1..Len(fs) |-> [fs[i] EXCEPT !.locale = locale]]

\* variant: the 0-based index of the line is reported as its number
LineOfFirstIndex(hits) ==
  LET idx == FindIndex(hits) IN IF idx >= 0 THEN idx ELSE 1

\* line number of the first line the callback accepts, 1 when there is none
LineOfFirst(hits) ==
  LET idx == FindIndex(hits) IN IF idx >= 0 THEN idx + 1 ELSE 1

(***************************************************************************)
(* Structural checks on the parsed document (route.ts:300-446).  Each      *)
(* returns the findings it pushes and whether it threw.                    *)
(***************************************************************************)
Outcome(fs, threw) == [fs |-> fs, threw |-> threw]

\* route.ts:300-314
CheckMissingJobs(w, lines) ==
  IF ~Truthy(w) \/ ~Truthy(Prop(w, <<"j","o","b","s">>))
  THEN LET isOn(l) == StartsWith(Trim(l), <<"o","n",":">>)
       IN Outcome(<<Finding("missing-jobs", "high", "syntax",
                            LineOfFirst([pos0 \in 1..Len(lines) |-> isOn(lines[pos0])]), 1, <<>>, <<>>)>>, FALSE)
  ELSE Outcome(<<>>, FALSE)

\* variant: the test VALID_EVENTS.length > 0 left out
CheckEventsUnguarded(w, lines, store) ==
  LET on == Prop(w, <<"o","n">>)
      one(e) ==
        IF ~InList(e.k, store.events)
        THEN LET isKey(l) == StartsWith(Trim(l), e.k \o <<":">>)
             IN <<Finding("invalid-event", "high", "syntax",
                          LineOfFirst([pos0 \in 1..Len(lines) |-> isKey(lines[pos0])]), 1, <<>>, <<e.k>>)>>
        ELSE <<>>
  IN IF Truthy(on) /\ IsObject(on) /\ on.t # "array"
     THEN Outcome(Concat([idx0 \in 1..Len(on.kids) |-> one((on.kids)[idx0])]), FALSE)
     ELSE Outcome(<<>>, FALSE)

\* route.ts:320-337
CheckEvents(w, lines, store) ==
  LET on == Prop(w, <<"o","n">>)
      one(e) ==
        IF Len(store.events) > 0 /\ ~InList(e.k, store.events)
        THEN LET isKey(l) == StartsWith(Trim(l), e.k \o <<":">>)
             IN <<Finding("invalid-event", "high", "syntax",
                          LineOfFirst([pos0 \in 1..Len(lines) |-> isKey(lines[pos0])]), 1, <<>>, <<e.k>>)>>
        ELSE <<>>
  IN IF Truthy(on) /\ IsObject(on) /\ on.t # "array"
     THEN Outcome(Concat([idx0 \in 1..Len(on.kids) |-> one((on.kids)[idx0])]), FALSE)
     ELSE Outcome(<<>>, FALSE)

ValidLevels == <<<<"r","e","a","d">>, <<"w","r","i","t","e">>, <<"n","o","n","e">>>>

\* route.ts:343-378
CheckPermissions(w, lines, store) ==
  LET perms == Prop(w, <<"p","e","r","m","i","s","s","i","o","n","s">>)
      scope(e) ==
        IF Len(store.permissions) > 0 /\ ~InList(e.k, store.permissions)
        THEN LET isKey(l) == StartsWith(Trim(l), e.k \o <<":">>)
             IN <<Finding("invalid-permission", "high", "syntax",
                          LineOfFirst([pos0 \in 1..Len(lines) |-> isKey(lines[pos0])]), 1, <<>>, <<e.k>>)>>
        ELSE <<>>
      level(e) ==
        IF e.v.t = "string" /\ ~InList(e.v.s, ValidLevels)
        THEN LET hasBoth(l) == Includes(l, e.k \o <<":">>) /\ Includes(l, e.v.s)
             IN <<Finding("invalid-permission-level", "medium", "syntax",
                          LineOfFirst([pos0 \in 1..Len(lines) |-> hasBoth(lines[pos0])]), 1, <<>>, <<e.v.s>>)>>
        ELSE <<>>
      one(e) == scope(e) \o level(e)
  IN IF Truthy(perms) /\ IsObject(perms)
     THEN Outcome(Concat([idx0 \in 1..Len(perms.kids) |-> one((perms.kids)[idx0])]), FALSE)
     ELSE Outcome(<<>>, FALSE)

\* variant: split(/\s+/, 5), which keeps at most five fields
CronFieldsLimited(cron) ==
  LET t == Trim(cron)
      n == Cardinality({i \in 1..Len(t) : ~IsWs(t[i]) /\ (i = 1 \/ IsWs(t[i - 1]))})
  IN IF t = <<>> THEN 1 ELSE IF n > 5 THEN 5 ELSE n

\* cron.trim().split(/\s+/).length: the number of blank-separated fields, 1 for the empty text
CronFields(cron) ==
  LET t == Trim(cron)
  IN IF t = <<>> THEN 1
     ELSE Cardinality({i \in 1..Len(t) : ~IsWs(t[i]) /\ (i = 1 \/ IsWs(t[i - 1]))})

\* route.ts:384-405; scheduleItem.cron.trim() throws when cron is truthy and not a string
CheckCron(w, lines) ==
  LET sched == Prop(Prop(w, <<"o","n">>), <<"s","c","h","e","d","u","l","e">>)
      crons == [i \in 1..Len(sched.kids) |-> Prop(sched.kids[i].v, <<"c","r","o","n">>)]
      \* the entries up to the first one that throws
      bad == {i \in 1..Len(crons) : Truthy(crons[i]) /\ crons[i].t # "string"}
      upTo == IF bad = {} THEN Len(crons) ELSE (CHOOSE i \in bad : \A j \in bad : i <= j) - 1
      one(c) ==
        IF Truthy(c) /\ CronFields(c.s) # 5
        THEN LET hasCron(l) == Includes(l, c.s)
             IN <<Finding("invalid-cron", "high", "syntax",
                          LineOfFirst([pos0 \in 1..Len(lines) |-> hasCron(lines[pos0])]), 1, <<>>, <<c.s>>)>>
        ELSE <<>>
  IN IF Truthy(sched) /\ sched.t = "array"
     THEN Outcome(Concat([idx0 \in 1..Len(SubSeq(crons, 1, upTo)) |-> one((SubSeq(crons, 1, upTo))[idx0])]), bad # {})
     ELSE Outcome(<<>>, FALSE)

\* characters that new RegExp reads as themselves in `^\s*${jobName}:`
RegexLiteral == AlphaNum \cup {"_", "-", "/", " ", ":", "@"}

\* new RegExp(`^\\s*${jobName}:`) throws a SyntaxError: an unopened or unclosed group or class
RegExpThrows(jobName) ==
  \/ \E i \in 1..Len(jobName) : jobName[i] \in {"(", "["}
                                /\ ~\E j \in (i + 1)..Len(jobName) : jobName[j] \in {")", "]"}
  \/ \E i \in 1..Len(jobName) : jobName[i] = ")"
                                /\ ~\E j \in 1..(i - 1) : jobName[j] = "("

\* l.match(new RegExp(`^\\s*${jobName}:`)) for a name of literal characters and dots
JobLineMatches(l, jobName) ==
  LET start == WsRun(l, 0)
      pat == jobName \o <<":">>
  IN /\ start + Len(pat) <= Len(l)
     /\ \A k \in 1..Len(pat) : pat[k] = "." \/ l[start + k] = pat[k]

\* route.ts:408-446
CheckJobFields(w, lines) ==
  LET jobs == Prop(w, <<"j","o","b","s">>)
      bad == {i \in 1..Len(jobs.kids) : RegExpThrows(jobs.kids[i].k)}
      upTo == IF bad = {} THEN Len(jobs.kids) ELSE (CHOOSE i \in bad : \A j \in bad : i <= j) - 1
      one(e) ==
        LET isJob(l) == JobLineMatches(l, e.k)
            jobLine == LineOfFirst([pos0 \in 1..Len(lines) |-> isJob(lines[pos0])])
            noUses == ~Truthy(Prop(e.v, <<"u","s","e","s">>))
        IN (IF ~Truthy(Prop(e.v, <<"r","u","n","s","-","o","n">>)) /\ noUses
            THEN <<Finding("missing-runs-on", "high", "syntax", jobLine, 1, <<>>, <<e.k>>)>>
            ELSE <<>>)
           \o
           (IF ~Truthy(Prop(e.v, <<"s","t","e","p","s">>)) /\ noUses
            THEN <<Finding("missing-steps", "high", "syntax", jobLine, 1, <<>>, <<e.k>>)>>
            ELSE <<>>)
  IN IF Truthy(w) /\ Truthy(jobs) /\ IsObject(jobs)
     THEN Outcome(Concat([idx0 \in 1..Len(SubSeq(jobs.kids, 1, upTo)) |-> one((SubSeq(jobs.kids, 1, upTo))[idx0])]), bad # {})
     ELSE Outcome(<<>>, FALSE)

\* the structural checks in the order of the code, stopping at the first that throws
RECURSIVE RunChecks(_)
RunChecks(outcomes) ==
  IF outcomes = <<>> THEN Outcome(<<>>, FALSE)
  ELSE IF Head(outcomes).threw THEN Head(outcomes)
  ELSE LET rest == RunChecks(Tail(outcomes))
       IN Outcome(Head(outcomes).fs \o rest.fs, rest.threw)

StructuralChecks(w, lines, store) ==
  RunChecks(<<CheckMissingJobs(w, lines), CheckEvents(w, lines, store),
              CheckPermissions(w, lines, store), CheckCron(w, lines),
              CheckJobFields(w, lines)>>)


(***************************************************************************)
(* Line-by-line security checks (route.ts:452-616)                         *)
(***************************************************************************)
\* least element of a non-empty set of integers
Min(set) == CHOOSE i \in set : \A j \in set : i <= j

\* 0-based position of the first match of a secret pattern at or after from, -1 if none
SecretSearch(sp, line, from) ==
  LET hits == {i \in from..(Len(line) - Len(sp.prefix) - sp.n) :
                 /\ MatchAt(line, sp.prefix, i)
                 /\ RunLen(line, i + Len(sp.prefix), sp.cls) >= sp.n}
  IN IF hits = {} THEN -1 ELSE Min(hits)

SecretLen(sp) == Len(sp.prefix) + sp.n

\* sp.regex.test(line) with the expression's lastIndex li: the result and the new lastIndex
SecretTest(sp, line, li) ==
  IF SecretRegexGlobal
  THEN LET i == SecretSearch(sp, line, li)
       IN IF i >= 0 THEN [found |-> TRUE, li |-> i + SecretLen(sp)]
          ELSE [found |-> FALSE, li |-> 0]
  ELSE [found |-> SecretSearch(sp, line, 0) >= 0, li |-> li]

Redacted == <<"*","*","*","R","E","D","A","C","T","E","D","*","*","*">>

\* text.replace(sp.regex, '***REDACTED***'): the first match, every match if global
RECURSIVE SecretReplace(_, _)
SecretReplace(sp, text) ==
  LET i == SecretSearch(sp, text, 0)
  IN IF i < 0 THEN text
     ELSE LET rest == SubSeq(text, i + SecretLen(sp) + 1, Len(text))
          IN SubSeq(text, 1, i) \o Redacted
             \o (IF SecretRegexGlobal THEN SecretReplace(sp, rest) ELSE rest)

\* variant: the guard on the secrets context left out
NoSecretsContext(line) == FALSE

\* line.includes('${{ secrets.')
UsesSecretsContext(line) == Includes(line, <<"$","{","{"," ","s","e","c","r","e","t","s",".">>)

\* route.ts:476-492 for the patterns from k on: the findings and the lastIndex of each pattern
RECURSIVE ScanSecrets(_, _, _, _, _)
ScanSecrets(line, lineNum, patterns, k, li) ==
  IF k > Len(patterns) THEN [fs |-> <<>>, li |-> li]
  ELSE LET sp == patterns[k]
           test == SecretTest(sp, line, li[k])
           hit == test.found /\ ~UsesSecretsContext(line)
           \* line.match and replace leave lastIndex 0 for a global expression
           liAfter == IF hit /\ SecretRegexGlobal THEN 0 ELSE test.li
           m == SecretSearch(sp, line, 0)
           matched == SubSeq(line, m + 1, m + SecretLen(sp))
           f == Finding("hardcoded-secret", "critical", "security", lineNum,
                        IF m >= 0 THEN IndexOf(line, matched) + 1 ELSE 1,
                        SecretReplace(sp, Trim(line)), <<sp.name>>)
           rest == ScanSecrets(line, lineNum, patterns, k + 1, [li EXCEPT ![k] = liAfter])
       IN [fs |-> (IF hit THEN <<f>> ELSE <<>>) \o rest.fs, li |-> rest.li]

\* variant: only lines with run: are looked at, not lines starting with echo
ScanInjectionRunOnly(line, lineNum, contexts) ==
  LET one(ctx) ==
        IF Includes(line, ctx)
        THEN <<Finding("expression-injection", "critical", "security", lineNum,
                       IndexOf(line, ctx) + 1, Trim(line), <<ctx>>)>>
        ELSE <<>>
  IN IF Includes(line, <<"r","u","n",":">>)
     THEN Concat([idx0 \in 1..Len(contexts) |-> one((contexts)[idx0])])
     ELSE <<>>

\* route.ts:456-473
ScanInjection(line, lineNum, contexts) ==
  LET one(ctx) ==
        IF Includes(line, ctx)
        THEN <<Finding("expression-injection", "critical", "security", lineNum,
                       IndexOf(line, ctx) + 1, Trim(line), <<ctx>>)>>
        ELSE <<>>
  IN IF Includes(line, <<"r","u","n",":">>) \/ StartsWith(Trim(line), <<"e","c","h","o"," ">>)
     THEN Concat([idx0 \in 1..Len(contexts) |-> one((contexts)[idx0])])
     ELSE <<>>

\* route.ts:495-523
ScanTriggers(line, lineNum) ==
  (IF Includes(line, <<"p","u","l","l","_","r","e","q","u","e","s","t","_","t","a","r","g","e","t">>)
   THEN <<Finding("dangerous-trigger", "critical", "security", lineNum,
                  IndexOf(line, <<"p","u","l","l","_","r","e","q","u","e","s","t","_","t","a","r","g","e","t">>) + 1, Trim(line), <<<<"p","u","l","l","_","r","e","q","u","e","s","t","_","t","a","r","g","e","t">>>>)>>
   ELSE <<>>)
  \o
  (IF Includes(line, <<"w","o","r","k","f","l","o","w","_","r","u","n">>)
   THEN <<Finding("dangerous-trigger", "high", "security", lineNum,
                  IndexOf(line, <<"w","o","r","k","f","l","o","w","_","r","u","n">>) + 1, Trim(line), <<<<"w","o","r","k","f","l","o","w","_","r","u","n">>>>)>>
   ELSE <<>>)

\* line.match(/permissions:\s*write-all/)
MatchesPermissionsWriteAll(line) ==
  \E i \in 0..Len(line) :
    /\ MatchAt(line, <<"p","e","r","m","i","s","s","i","o","n","s",":">>, i)
    /\ MatchAt(line, <<"w","r","i","t","e","-","a","l","l">>, i + 12 + WsRun(line, i + 12))

\* variant: only the permissions key is looked for, not the bare word
ScanPermissionsKeyOnly(line, lineNum) ==
  IF MatchesPermissionsWriteAll(line)
  THEN <<Finding("excessive-permissions", "high", "security", lineNum, 1, Trim(line), <<>>)>>
  ELSE <<>>

\* route.ts:526-539
ScanPermissions(line, lineNum) ==
  IF Includes(line, <<"w","r","i","t","e","-","a","l","l">>) \/ MatchesPermissionsWriteAll(line)
  THEN <<Finding("excessive-permissions", "high", "security", lineNum, 1, Trim(line), <<>>)>>
  ELSE <<>>

\* length of the longest run of characters outside excl starting at 0-based position i
RECURSIVE RunLenNot(_, _, _)
RunLenNot(s, i, excl) ==
  IF i < Len(s) /\ s[i + 1] \notin excl THEN 1 + RunLenNot(s, i + 1, excl) ELSE 0

\* the alternatives of the ref group, in the order the expression tries them
MutableRefs == <<<<"m","a","i","n">>, <<"m","a","s","t","e","r">>, <<"l","a","t","e","s","t">>, <<"d","e","v">>, <<"H","E","A","D">>>>

\* whether the text following the @ at 0-based position at is taken as ref r
RefMatches(line, at, r) == MatchAt(line, r, at)

\* line.match(/uses:\s*([^@\s]+)@(main|master|latest|dev|HEAD)/): the groups of the leftmost match
UnpinnedMatch(line) ==
  LET idStart(i) == i + 5 + WsRun(line, i + 5)
      idLen(i) == RunLenNot(line, idStart(i), {"@", " ", "\t", "\n"})
      refAt(i) == idStart(i) + idLen(i) + 1
      ok(i) == /\ MatchAt(line, <<"u","s","e","s",":">>, i)
               /\ idLen(i) >= 1
               /\ MatchAt(line, <<"@">>, idStart(i) + idLen(i))
               /\ \E r \in 1..Len(MutableRefs) : RefMatches(line, refAt(i), MutableRefs[r])
      hits == {i \in 0..Len(line) : ok(i)}
  IN IF hits = {} THEN [matched |-> FALSE, id |-> <<>>, ref |-> <<>>]
     ELSE LET i == Min(hits)
              r == Min({x \in 1..Len(MutableRefs) : RefMatches(line, refAt(i), MutableRefs[x])})
          IN [matched |-> TRUE,
              id |-> SubSeq(line, idStart(i) + 1, idStart(i) + idLen(i)),
              ref |-> MutableRefs[r]]

\* route.ts:542-556
ScanUnpinned(line, lineNum) ==
  LET m == UnpinnedMatch(line)
  IN IF m.matched
     THEN <<Finding("unpinned-action", "high", "security", lineNum,
                    IndexOf(line, <<"u","s","e","s",":">>) + 1, Trim(line), <<m.id, m.ref>>)>>
     ELSE <<>>

\* /tool\s+[^|]*\|\s*(ba)?sh/.test(line)
PipedToShell(line, tool) ==
  \E i \in 0..Len(line) :
    /\ MatchAt(line, tool, i)
    /\ WsRun(line, i + Len(tool)) >= 1
    /\ LET bar == i + Len(tool) + 1 + RunLenNot(line, i + Len(tool) + 1, {"|"})
           sh == bar + 1 + WsRun(line, bar + 1)
       IN /\ MatchAt(line, <<"|">>, bar)
          /\ (MatchAt(line, <<"s","h">>, sh) \/ MatchAt(line, <<"b","a","s","h">>, sh))

\* route.ts:559-572
ScanCommands(line, lineNum) ==
  IF PipedToShell(line, <<"c","u","r","l">>) \/ PipedToShell(line, <<"w","g","e","t">>)
  THEN <<Finding("dangerous-command", "high", "security", lineNum, 1, Trim(line), <<>>)>>
  ELSE <<>>


\* the text of the lines: lines.join('\n')
RECURSIVE JoinLines(_)
JoinLines(lines) ==
  IF Len(lines) <= 1 THEN Concat(lines)
  ELSE Head(lines) \o <<"\n">> \o JoinLines(Tail(lines))

PrHeadSha == <<"g","i","t","h","u","b",".","e","v","e","n","t",".","p","u","l","l","_","r","e","q","u","e","s","t",".","h","e","a","d",".","s","h","a">>

\* code.match(/ref:\s*\$\{\{\s*github\.event\.pull_request\.head\.sha\s*\}\}/)
MatchesHeadShaRef(text) ==
  \E i \in 0..Len(text) :
    /\ MatchAt(text, <<"r","e","f",":">>, i)
    /\ LET open == i + 4 + WsRun(text, i + 4)
           path == open + 3 + WsRun(text, open + 3)
           close == path + Len(PrHeadSha) + WsRun(text, path + Len(PrHeadSha))
       IN /\ MatchAt(text, <<"$","{","{">>, open)
          /\ MatchAt(text, PrHeadSha, path)
          /\ MatchAt(text, <<"}","}">>, close)

\* route.ts:575-591
ScanCheckout(line, lineNum, lines) ==
  IF /\ Includes(line, <<"a","c","t","i","o","n","s","/","c","h","e","c","k","o","u","t">>)
     /\ Includes(JoinLines(lines), <<"p","u","l","l","_","r","e","q","u","e","s","t","_","t","a","r","g","e","t">>)
     /\ MatchesHeadShaRef(JoinLines(lines))
  THEN <<Finding("unsafe-checkout", "critical", "security", lineNum, 1, Trim(line), <<>>)>>
  ELSE <<>>

\* line.match(/runs-on:\s*(\S+)/): the group of the leftmost match, <<>> if there is no match
RunnerToken(line) ==
  LET start(i) == i + 8 + WsRun(line, i + 8)
      len(i) == RunLenNot(line, start(i), {" ", "\t", "\n"})
      hits == {i \in 0..Len(line) : MatchAt(line, <<"r","u","n","s","-","o","n",":">>, i) /\ len(i) >= 1}
  IN IF hits = {} THEN <<>>
     ELSE SubSeq(line, start(Min(hits)) + 1, start(Min(hits)) + len(Min(hits)))

\* token.replace(/['"]/g, '').split('#')[0].trim()
RunnerName(token) ==
  LET bare == SelectSeq(token, LAMBDA c : c \notin {"'", "\""})
  IN Trim(SubSeq(bare, 1, RunLenNot(bare, 0, {"#"})))

\* route.ts:594-611
ScanRunner(line, lineNum, runners) ==
  LET token == RunnerToken(line)
      runner == RunnerName(token)
  IN IF /\ token # <<>>
        /\ ~Includes(runner, <<"$","{","{">>)
        /\ ~InList(runner, runners)
        /\ ~Includes(runner, <<"m","a","t","r","i","x",".">>)
     THEN <<Finding("invalid-runner", "medium", "syntax", lineNum,
                    IndexOf(line, runner) + 1, Trim(line), <<runner>>)>>
     ELSE <<>>

\* the body of the forEach of route.ts:452-616 for one line
ScanLine(line, lineNum, lines, store, li) ==
  LET sec == ScanSecrets(line, lineNum, store.secrets, 1, li)
  IN [fs |-> ScanInjection(line, lineNum, store.contexts)
             \o sec.fs
             \o ScanTriggers(line, lineNum)
             \o ScanPermissions(line, lineNum)
             \o ScanUnpinned(line, lineNum)
             \o ScanCommands(line, lineNum)
             \o ScanCheckout(line, lineNum, lines)
             \o ScanRunner(line, lineNum, store.runners),
      li |-> sec.li]

\* the forEach from line k on
RECURSIVE ScanLines(_, _, _, _)
ScanLines(lines, k, store, li) ==
  IF k > Len(lines) THEN [fs |-> <<>>, li |-> li]
  ELSE LET one == ScanLine(lines[k], k, lines, store, li)
           rest == ScanLines(lines, k + 1, store, one.li)
       IN [fs |-> one.fs \o rest.fs, li |-> rest.li]


(***************************************************************************)
(* Glob sections (route.ts:618-663)                                        *)
(***************************************************************************)
GlobHeaders ==
  {<<"b","r","a","n","c","h","e","s",":">>, <<"b","r","a","n","c","h","e","s","-","i","g","n","o","r","e",":">>, <<"t","a","g","s",":">>, <<"t","a","g","s","-","i","g","n","o","r","e",":">>, <<"p","a","t","h","s",":">>, <<"p","a","t","h","s","-","i","g","n","o","r","e",":">>}

GlobInit == [inGlobSection |-> FALSE, globSectionIndent |-> 0]

Quotes == {"'", "\""}

\* group 1 of trimmed.match(/^-\s*['"]?(.+?)['"]?\s*$/), <<>> if there is no match
GlobPattern(trimmed) ==
  LET r == SubSeq(trimmed, 2 + WsRun(trimmed, 1), Len(trimmed))
      body == IF Len(r) >= 2 /\ r[1] \in Quotes THEN Tail(r) ELSE r
  IN IF Len(body) >= 2 /\ body[Len(body)] \in Quotes
     THEN SubSeq(body, 1, Len(body) - 1)
     ELSE body

\* variant: only the digit escapes are looked for
EscapesInDigits(pattern) ==
  {i \in 1..(Len(pattern) - 1) : pattern[i] = "\\" /\ pattern[i + 1] \in {"d", "D"}}

\* pattern.match(/\\[dDwWsS]/g): the 1-based positions of the escapes
EscapesIn(pattern) ==
  {i \in 1..(Len(pattern) - 1) :
     pattern[i] = "\\" /\ pattern[i + 1] \in {"d", "D", "w", "W", "s", "S"}}

\* the body of the forEach of route.ts:623-663 for one line: the new state and the findings
GlobStep(st, line, lineNum) ==
  LET trimmed == Trim(line)
      indent == SearchNonWs(line)
      exits == /\ st.inGlobSection
               /\ indent <= st.globSectionIndent
               /\ trimmed # <<>>
               /\ ~StartsWith(trimmed, <<"#">>)
               /\ ~StartsWith(trimmed, <<"-">>)
      after == IF exits THEN [st EXCEPT !.inGlobSection = FALSE] ELSE st
      pattern == GlobPattern(trimmed)
      esc == EscapesIn(pattern)
      first == SubSeq(pattern, Min(esc), Min(esc) + 1)
  IN IF trimmed \in GlobHeaders
     THEN [st |-> [inGlobSection |-> TRUE, globSectionIndent |-> indent], fs |-> <<>>]
     ELSE [st |-> after,
           fs |-> IF after.inGlobSection /\ StartsWith(trimmed, <<"-">>)
                     /\ pattern # <<>> /\ esc # {}
                  THEN <<Finding("invalid-glob-pattern", "high", "syntax", lineNum,
                                 IndexOf(line, first) + 1, trimmed, <<first>>)>>
                  ELSE <<>>]

\* the forEach from line k on: the findings and the state after each line
RECURSIVE GlobPass(_, _, _)
GlobPass(lines, k, st) ==
  IF k > Len(lines) THEN [fs |-> <<>>, trace |-> <<>>]
  ELSE LET one == GlobStep(st, lines[k], k)
           rest == GlobPass(lines, k + 1, one.st)
       IN [fs |-> one.fs \o rest.fs, trace |-> <<one.st>> \o rest.trace]

(***************************************************************************)
(* Action inputs (route.ts:665-727)                                        *)
(***************************************************************************)
\* currentAction = null
NoName == <<>>

WithInit ==
  [currentAction |-> NoName, currentActionLine |-> 0, inWithBlock |-> FALSE, withIndent |-> 0]

\* group 1 of trimmed.match(/^-?\s*uses:\s*([^@\s]+)@/), NoName if there is no match
UsesAction(trimmed) ==
  LET dash == IF StartsWith(trimmed, <<"-">>) THEN 1 ELSE 0
      uses == dash + WsRun(trimmed, dash)
      start == uses + 5 + WsRun(trimmed, uses + 5)
      len == RunLenNot(trimmed, start, {"@", " ", "\t", "\n"})
  IN IF MatchAt(trimmed, <<"u","s","e","s",":">>, uses) /\ len >= 1 /\ MatchAt(trimmed, <<"@">>, start + len)
     THEN SubSeq(trimmed, start + 1, start + len)
     ELSE NoName

\* group 1 of trimmed.match(/^(cls+):/), NoName if there is no match
LeadingKey(trimmed, cls) ==
  LET len == RunLen(trimmed, 0, cls)
  IN IF len >= 1 /\ MatchAt(trimmed, <<":">>, len) THEN SubSeq(trimmed, 1, len) ELSE NoName

InputChars == AlphaNum \cup {"_", "-"}

\* the body of the forEach of route.ts:672-727 for one line
WithStep(st, line, lineNum, actions) ==
  LET trimmed == Trim(line)
      indent == SearchNonWs(line)
      used == UsesAction(trimmed)
      live == trimmed # <<>> /\ ~StartsWith(trimmed, <<"#">>)
      exits == /\ st.inWithBlock
               /\ indent <= st.withIndent
               /\ live
               /\ ~StartsWith(trimmed, <<"w","i","t","h",":">>)
      after == IF exits THEN [st EXCEPT !.inWithBlock = FALSE, !.currentAction = NoName] ELSE st
      inputName == LeadingKey(trimmed, InputChars)
  IN IF used # NoName
     THEN [st |-> [st EXCEPT !.currentAction = used, !.currentActionLine = lineNum,
                             !.inWithBlock = FALSE],
           fs |-> <<>>]
     ELSE IF trimmed = <<"w","i","t","h",":">> /\ st.currentAction # NoName
     THEN [st |-> [st EXCEPT !.inWithBlock = TRUE, !.withIndent = indent], fs |-> <<>>]
     ELSE [st |-> after,
           fs |-> IF /\ after.inWithBlock /\ after.currentAction # NoName /\ live
                     /\ inputName # NoName
                     /\ Has(actions, after.currentAction)
                     /\ ~InList(inputName, Get(actions, after.currentAction))
                  THEN <<Finding("invalid-action-input", "high", "syntax", lineNum,
                                 IndexOf(line, inputName) + 1, trimmed,
                                 <<inputName, after.currentAction>>)>>
                  ELSE <<>>]

RECURSIVE WithPass(_, _, _, _)
WithPass(lines, k, st, actions) ==
  IF k > Len(lines) THEN [fs |-> <<>>, trace |-> <<>>]
  ELSE LET one == WithStep(st, lines[k], k, actions)
           rest == WithPass(lines, k + 1, one.st, actions)
       IN [fs |-> one.fs \o rest.fs, trace |-> <<one.st>> \o rest.trace]

(***************************************************************************)
(* Event keys (route.ts:729-785)                                           *)
(***************************************************************************)
OnInit == [currentEvent |-> NoName, inOnBlock |-> FALSE, onIndent |-> 0]

EventChars == Lower \cup {"_"}
KeyChars == Lower \cup {"_", "-"}

\* group 1 of trimmed.match(/^([a-z_]+):$/), NoName if there is no match
BareEvent(trimmed) ==
  LET len == RunLen(trimmed, 0, EventChars)
  IN IF len >= 1 /\ trimmed = SubSeq(trimmed, 1, len) \o <<":">> THEN SubSeq(trimmed, 1, len)
     ELSE NoName

\* variant: leaving the on: block keeps the active event
OnStepKeepsEvent(st, line, lineNum, eventKeys) ==
  LET trimmed == Trim(line)
      indent == SearchNonWs(line)
      exits == /\ st.inOnBlock
               /\ indent <= st.onIndent
               /\ trimmed # <<>>
               /\ ~StartsWith(trimmed, <<"#">>)
      after == IF exits THEN [st EXCEPT !.inOnBlock = FALSE] ELSE st
      event == BareEvent(trimmed)
      key == LeadingKey(trimmed, KeyChars)
      validKeys == IF Has(eventKeys, after.currentEvent) THEN Get(eventKeys, after.currentEvent)
                   ELSE <<>>
  IN IF StartsWith(trimmed, <<"o","n",":">>)
     THEN [st |-> [st EXCEPT !.inOnBlock = TRUE, !.onIndent = indent], fs |-> <<>>]
     ELSE IF ~after.inOnBlock THEN [st |-> after, fs |-> <<>>]
     ELSE IF event # NoName /\ Has(eventKeys, event)
     THEN [st |-> [after EXCEPT !.currentEvent = event], fs |-> <<>>]
     ELSE [st |-> after,
           fs |-> IF /\ after.currentEvent # NoName /\ trimmed # <<>>
                     /\ key # NoName
                     /\ Len(validKeys) > 0
                     /\ ~InList(key, validKeys)
                  THEN <<Finding("unknown-event-key", "high", "syntax", lineNum,
                                 IndexOf(line, key) + 1, trimmed,
                                 <<key, after.currentEvent>>)>>
                  ELSE <<>>]

\* the body of the forEach of route.ts:735-785 for one line
OnStep(st, line, lineNum, eventKeys) ==
  LET trimmed == Trim(line)
      indent == SearchNonWs(line)
      exits == /\ st.inOnBlock
               /\ indent <= st.onIndent
               /\ trimmed # <<>>
               /\ ~StartsWith(trimmed, <<"#">>)
      after == IF exits THEN [st EXCEPT !.inOnBlock = FALSE, !.currentEvent = NoName] ELSE st
      event == BareEvent(trimmed)
      key == LeadingKey(trimmed, KeyChars)
      validKeys == IF Has(eventKeys, after.currentEvent) THEN Get(eventKeys, after.currentEvent)
                   ELSE <<>>
  IN IF StartsWith(trimmed, <<"o","n",":">>)
     THEN [st |-> [st EXCEPT !.inOnBlock = TRUE, !.onIndent = indent], fs |-> <<>>]
     ELSE IF ~after.inOnBlock THEN [st |-> after, fs |-> <<>>]
     ELSE IF event # NoName /\ Has(eventKeys, event)
     THEN [st |-> [after EXCEPT !.currentEvent = event], fs |-> <<>>]
     ELSE [st |-> after,
           fs |-> IF /\ after.currentEvent # NoName /\ trimmed # <<>>
                     /\ key # NoName
                     /\ Len(validKeys) > 0
                     /\ ~InList(key, validKeys)
                  THEN <<Finding("unknown-event-key", "high", "syntax", lineNum,
                                 IndexOf(line, key) + 1, trimmed,
                                 <<key, after.currentEvent>>)>>
                  ELSE <<>>]

RECURSIVE OnPass(_, _, _, _)
OnPass(lines, k, st, eventKeys) ==
  IF k > Len(lines) THEN [fs |-> <<>>, trace |-> <<>>]
  ELSE LET one == OnStep(st, lines[k], k, eventKeys)
           rest == OnPass(lines, k + 1, one.st, eventKeys)
       IN [fs |-> one.fs \o rest.fs, trace |-> <<one.st>> \o rest.trace]


(***************************************************************************)
(* Scoring (route.ts:787-805)                                              *)
(***************************************************************************)
Severities == {"critical", "high", "medium", "low", "info"}

\* variant: a high finding deducts what a medium one does
DeductionHighAsMedium(severity) ==
  CASE severity = "critical" -> 25
    [] severity = "high" -> 10
    [] severity = "medium" -> 10
    [] severity = "low" -> 5
    [] OTHER -> 0

\* variant: a high finding is added to the score
DeductionAdds(severity) ==
  CASE severity = "critical" -> 25
    [] severity = "high" -> -15
    [] severity = "medium" -> 10
    [] severity = "low" -> 5
    [] OTHER -> 0

Deduction(severity) ==
  CASE severity = "critical" -> 25
    [] severity = "high" -> 15
    [] severity = "medium" -> 10
    [] severity = "low" -> 5
    [] OTHER -> 0

NoSummary == [s \in Severities |-> 0]

\* variant: the count is set, not incremented
TallySets(summary, severity) == [summary EXCEPT ![severity] = 1]

\* summary[f.severity]++
Tally(summary, severity) == [summary EXCEPT ![severity] = @ + 1]

\* the forEach of route.ts:791-797 from finding k on, from a running score and summary:
\* the final values and the score after each finding
RECURSIVE ScoreFold(_, _, _, _)
ScoreFold(fs, k, score, summary) ==
  IF k > Len(fs) THEN [score |-> score, summary |-> summary, trace |-> <<>>]
  ELSE LET sev == fs[k].severity
           next == score - Deduction(sev)
           rest == ScoreFold(fs, k + 1, next, Tally(summary, sev))
       IN [score |-> rest.score, summary |-> rest.summary, trace |-> <<next>> \o rest.trace]

\* variant: the score is returned as computed
Unclamped(score) == score

\* Math.max(0, score)
Clamp(score) == IF score < 0 THEN 0 ELSE score

\* variant: the thresholds compared with > for >=
GradeOfStrict(score) ==
  IF score > 90 THEN "A"
  ELSE IF score > 80 THEN "B"
  ELSE IF score > 70 THEN "C"
  ELSE IF score > 60 THEN "D"
  ELSE "F"

GradeOf(score) ==
  IF score >= 90 THEN "A"
  ELSE IF score >= 80 THEN "B"
  ELSE IF score >= 70 THEN "C"
  ELSE IF score >= 60 THEN "D"
  ELSE "F"

(***************************************************************************)
(* The handler                                                             *)
(***************************************************************************)
VARIABLES
  mode,        \* which requests the run draws and whether it remembers a response
  store,       \* the reference data, fixed at start-up
  lastIndex,   \* lastIndex of the expression of each secret pattern
  pc,          \* position of the handler
  req,         \* the request body being served
  lines,       \* code.split('\n')
  workflow,    \* the parsed document
  findings,    \* the findings pushed so far
  globTrace,   \* state of the glob tracker after each line
  withTrace,   \* state of the with tracker after each line
  onTrace,     \* state of the on tracker after each line
  scoreTrace,  \* running score after each finding
  summary, score, grade,
  response,    \* the response of the handler
  prev         \* a remembered earlier request and its response, and whether other
               \* requests were served since

vars == <<mode, store, lastIndex, pc, req, lines, workflow, findings, globTrace, withTrace,
          onTrace, scoreTrace, summary, score, grade, response, prev>>

NoRequest == [codeType |-> "undefined", doc |-> <<>>, locale |-> "en"]

NoResponse ==
  [status |-> 0, kind |-> "none", findings |-> <<>>, summary |-> NoSummary,
   score |-> 0, grade |-> "", duration |-> 0]

ErrorResponse(status) == [NoResponse EXCEPT !.status = status, !.kind = "error"]

Result(fs, sm, sc, gr, d) ==
  [status |-> 200, kind |-> "result", findings |-> fs, summary |-> sm,
   score |-> sc, grade |-> gr, duration |-> d]

NoPrev == [set |-> FALSE, req |-> NoRequest, response |-> NoResponse, others |-> FALSE]

\* performance.now() - start, in coarse units
Durations == {0, 1}

InitWith(m, docStore) ==
  /\ mode = m
  /\ store = docStore
  /\ lastIndex = [k \in 1..Len(docStore.secrets) |-> 0]
  /\ pc = "idle"
  /\ req = NoRequest
  /\ lines = <<>>
  /\ workflow = VUndef
  /\ findings = <<>>
  /\ globTrace = <<>>
  /\ withTrace = <<>>
  /\ onTrace = <<>>
  /\ scoreTrace = <<>>
  /\ summary = NoSummary
  /\ score = 100
  /\ grade = ""
  /\ response = NoResponse
  /\ prev = NoPrev

Init == InitWith("single", FullStore)

InitHistory == InitWith("history", FullStore)

\* start-up with any of the data sets missing
InitData == \E s \in DataStores : InitWith("data", s)

\* start-up with every data set loaded, or none
InitLines == \E s \in {LineStore, EmptyStore} : InitWith("lines", s)

locals == <<lines, workflow, findings, globTrace, withTrace, onTrace, scoreTrace,
            summary, score, grade>>

\* a throw inside lint reaches the catch of POST (route.ts:830-835)
Throw ==
  /\ response' = ErrorResponse(500)
  /\ pc' = "responded"

\* reading msg.<key> when messages[locale] is undefined
MsgThrows(fs) == fs # <<>> /\ req.locale \notin Locales

\* route.ts:820-828 and 264-268: the body is read, checked, and lint is entered
Post ==
  /\ pc = "idle"
  /\ \E r \in Requests(CASE mode = "history" -> HistoryDocuments
                          [] mode = "data" -> DataDocuments
                          [] mode = "lines" -> LineDocuments
                          [] OTHER -> Documents) :
       /\ req' = r
       /\ IF r.codeType # "string" \/ r.doc = <<>>
          THEN /\ response' = ErrorResponse(400)
               /\ pc' = "responded"
               /\ UNCHANGED locals
          ELSE /\ response' = NoResponse
               /\ pc' = "lint"
               /\ lines' = LinesOf(r.doc)
               /\ findings' = <<>>
               /\ workflow' = VUndef
               /\ globTrace' = <<>>
               /\ withTrace' = <<>>
               /\ onTrace' = <<>>
               /\ scoreTrace' = <<>>
               /\ summary' = NoSummary
               /\ score' = 100
               /\ grade' = ""
  /\ UNCHANGED <<mode, store, lastIndex, prev>>

\* variant: the finding anchored at the 0-based index of the first line
InvalidYamlAtLineZero == Finding("invalid-yaml", "critical", "syntax", 0, 1, <<>>, <<>>)

\* route.ts:279-289
InvalidYaml == Finding("invalid-yaml", "critical", "syntax", 1, 1, <<>>, <<>>)

\* the summary of the early return, route.ts:293
InvalidYamlSummary == [NoSummary EXCEPT !["critical"] = 1]

\* route.ts:274-298
Parse ==
  /\ pc = "lint"
  /\ LET p == YAMLParse(req.doc)
     IN IF p.ok
        THEN /\ workflow' = p.value
             /\ pc' = "parsed"
             /\ UNCHANGED <<findings, response>>
        ELSE IF MsgThrows(<<InvalidYaml>>)
        THEN /\ Throw
             /\ UNCHANGED <<workflow, findings>>
        ELSE /\ findings' = findings \o Localise(<<InvalidYaml>>, req.locale)
             /\ \E d \in Durations :
                  response' = Result(findings', InvalidYamlSummary, 0, "F", d)
             /\ pc' = "responded"
             /\ UNCHANGED workflow
  /\ UNCHANGED <<mode, store, lastIndex, req, lines, globTrace, withTrace, onTrace,
                 scoreTrace, summary, score, grade, prev>>

\* variant: the findings of a pass are put in front of the list (unshift for push)
PushFront(out, next) ==
  IF out.threw \/ MsgThrows(out.fs)
  THEN /\ Throw
       /\ UNCHANGED findings
  ELSE /\ findings' = Localise(out.fs, req.locale) \o findings
       /\ pc' = next
       /\ UNCHANGED response

\* a pass that pushes fs and moves on to the position next, or throws
Push(out, next) ==
  IF out.threw \/ MsgThrows(out.fs)
  THEN /\ Throw
       /\ UNCHANGED findings
  ELSE /\ findings' = findings \o Localise(out.fs, req.locale)
       /\ pc' = next
       /\ UNCHANGED response

\* route.ts:300-446
Structural ==
  /\ pc = "parsed"
  /\ Push(StructuralChecks(workflow, lines, store), "structural")
  /\ UNCHANGED <<mode, store, lastIndex, req, lines, workflow, globTrace, withTrace, onTrace,
                 scoreTrace, summary, score, grade, prev>>

\* route.ts:452-616
Scan ==
  /\ pc = "structural"
  /\ LET out == ScanLines(lines, 1, store, lastIndex)
     IN /\ Push(Outcome(out.fs, FALSE), "scanned")
        /\ lastIndex' = out.li
  /\ UNCHANGED <<mode, store, req, lines, workflow, globTrace, withTrace, onTrace,
                 scoreTrace, summary, score, grade, prev>>

\* route.ts:618-663
Globs ==
  /\ pc = "scanned"
  /\ LET out == GlobPass(lines, 1, GlobInit)
     IN /\ Push(Outcome(out.fs, FALSE), "globbed")
        /\ globTrace' = out.trace
  /\ UNCHANGED <<mode, store, lastIndex, req, lines, workflow, withTrace, onTrace,
                 scoreTrace, summary, score, grade, prev>>

\* route.ts:665-727
Inputs ==
  /\ pc = "globbed"
  /\ LET out == WithPass(lines, 1, WithInit, store.actions)
     IN /\ Push(Outcome(out.fs, FALSE), "inputs")
        /\ withTrace' = out.trace
  /\ UNCHANGED <<mode, store, lastIndex, req, lines, workflow, globTrace, onTrace,
                 scoreTrace, summary, score, grade, prev>>

\* route.ts:729-785
EventKeys ==
  /\ pc = "inputs"
  /\ LET out == OnPass(lines, 1, OnInit, store.eventKeys)
     IN /\ Push(Outcome(out.fs, FALSE), "events")
        /\ onTrace' = out.trace
  /\ UNCHANGED <<mode, store, lastIndex, req, lines, workflow, globTrace, withTrace,
                 scoreTrace, summary, score, grade, prev>>

\* route.ts:787-805
Score ==
  /\ pc = "events"
  /\ LET out == ScoreFold(findings, 1, 100, NoSummary)
     IN /\ scoreTrace' = out.trace
        /\ summary' = out.summary
        /\ score' = Clamp(out.score)
        /\ grade' = GradeOf(Clamp(out.score))
  /\ pc' = "scored"
  /\ UNCHANGED <<mode, store, lastIndex, req, lines, workflow, findings, globTrace, withTrace,
                 onTrace, response, prev>>

\* route.ts:807-813 and 829
Return ==
  /\ pc = "scored"
  /\ \E d \in Durations : response' = Result(findings, summary, score, grade, d)
  /\ pc' = "responded"
  /\ UNCHANGED <<mode, store, lastIndex, req, locals, prev>>

\* the response is sent and the locals of the call are gone; a run with history may
\* remember the request and its response
NextRequest ==
  /\ pc = "responded"
  /\ pc' = "idle"
  /\ \E keep \in BOOLEAN :
       prev' = IF mode = "history" /\ keep /\ response.kind = "result"
               THEN [set |-> TRUE, req |-> req, response |-> response, others |-> FALSE]
               ELSE IF prev.set /\ req # prev.req THEN [prev EXCEPT !.others = TRUE]
               ELSE prev
  /\ response' = NoResponse
  /\ req' = NoRequest
  /\ lines' = <<>>
  /\ workflow' = VUndef
  /\ findings' = <<>>
  /\ globTrace' = <<>>
  /\ withTrace' = <<>>
  /\ onTrace' = <<>>
  /\ scoreTrace' = <<>>
  /\ summary' = NoSummary
  /\ score' = 100
  /\ grade' = ""
  /\ UNCHANGED <<mode, store, lastIndex>>

Next ==
  \/ Post
  \/ Parse
  \/ Structural
  \/ Scan
  \/ Globs
  \/ Inputs
  \/ EventKeys
  \/ Score
  \/ Return
  \/ NextRequest

Spec == Init /\ [][Next]_vars

SpecHistory == InitHistory /\ [][Next]_vars

SpecData == InitData /\ [][Next]_vars

SpecLines == InitLines /\ [][Next]_vars


(***************************************************************************)
(* Properties                                                              *)
(***************************************************************************)
\* the request carries a non-empty text, so that lint is called
LintCalled == req.codeType = "string" /\ req.doc # <<>>

\* the text of the request is one YAML.parse rejects, resp. accepts
Rejected == LintCalled /\ ~YAMLParse(req.doc).ok
Accepted == LintCalled /\ YAMLParse(req.doc).ok

\* lint is called with a locale of its declared type
TypedLocale == req.locale \in Locales

\* lint has returned a result and the handler has answered with it
Returned == pc = "responded" /\ response.kind = "result"

CountSeverity(fs, severity) == Cardinality({i \in 1..Len(fs) : fs[i].severity = severity})

FindingsAt(fs, ruleId, lineNum) == {i \in 1..Len(fs) : fs[i].ruleId = ruleId /\ fs[i].line = lineNum}

\* C1: for every text the YAML parser rejects, lint returns exactly one finding
\* (invalid-yaml, critical, syntax, line 1), the summary {critical: 1, others 0},
\* score 0 and grade F, and the analysis goes no further than the parser.
C1_ParseFailureResult ==
  /\ Rejected => pc \in {"lint", "responded"}
  /\ (pc = "responded" /\ Rejected /\ TypedLocale) =>
       /\ response.kind = "result"
       /\ Len(response.findings) = 1
       /\ response.findings[1].ruleId = "invalid-yaml"
       /\ response.findings[1].severity = "critical"
       /\ response.findings[1].category = "syntax"
       /\ response.findings[1].line = 1
       /\ response.summary =
            [s \in Severities |-> IF s = "critical" THEN 1 ELSE 0]
       /\ response.score = 0
       /\ response.grade = "F"

\* a rejected text with a line the line scan would flag has been answered
C1_Witness ==
  /\ Returned
  /\ Rejected
  /\ \E i \in 1..Len(lines) : Includes(lines[i], <<"w","r","i","t","e","-","a","l","l">>)

ExpectedScore(fs) ==
  LET raw == 100 - 25 * CountSeverity(fs, "critical") - 15 * CountSeverity(fs, "high")
                 - 10 * CountSeverity(fs, "medium") - 5 * CountSeverity(fs, "low")
  IN IF raw > 0 THEN raw ELSE 0

\* C2: for every document that parses, score = max(0, 100 - 25*critical - 15*high
\* - 10*medium - 5*low) over every occurrence of a finding; no finding gives 100.
C2_ScoreFormula ==
  (Returned /\ Accepted) =>
    /\ response.score = ExpectedScore(response.findings)
    /\ response.findings = <<>> => response.score = 100

\* a parsed document with two findings of one rule and a medium finding, scored above 0
C2_Witness ==
  /\ Returned
  /\ Accepted
  /\ response.score > 0
  /\ \E i, j \in 1..Len(response.findings) :
       i < j /\ response.findings[i].ruleId = response.findings[j].ruleId
  /\ \E i \in 1..Len(response.findings) : response.findings[i].severity = "medium"

\* C3: every result, of the early return and of the normal return, has 0 <= score <= 100.
C3_ScoreInRange ==
  response.kind = "result" => (response.score >= 0 /\ response.score <= 100)

\* a result whose deductions exceed 100
C3_Witness ==
  /\ Returned
  /\ scoreTrace # <<>>
  /\ scoreTrace[Len(scoreTrace)] < 0
  /\ response.score = 0

\* every finding of fs occurs in gs at least as often as in fs
SubBag(fs, gs) ==
  \A i \in 1..Len(fs) :
    Cardinality({j \in 1..Len(fs) : fs[j] = fs[i]})
      <= Cardinality({j \in 1..Len(gs) : gs[j] = fs[i]})

\* C4: the running score never rises from one finding to the next, and of two parsed
\* documents of which one has the findings of the other and more, the one with
\* more findings has the lower or equal final score.
C4_ScoreNonIncreasing ==
  /\ \A i \in 1..Len(scoreTrace) :
       scoreTrace[i] <= (IF i = 1 THEN 100 ELSE scoreTrace[i - 1])
  /\ (prev.set /\ Returned /\ Accepted) =>
       /\ SubBag(prev.response.findings, response.findings)
            => response.score <= prev.response.score
       /\ SubBag(response.findings, prev.response.findings)
            => prev.response.score <= response.score

\* a remembered result whose findings are all among those of a later, longer result
C4_Witness ==
  /\ prev.set
  /\ Returned
  /\ Accepted
  /\ Len(scoreTrace) >= 2
  /\ prev.response.findings # <<>>
  /\ SubBag(prev.response.findings, response.findings)
  /\ Len(prev.response.findings) < Len(response.findings)
  /\ response.score < prev.response.score

\* C5: the grade is decided by the score alone: A iff score >= 90, B iff 80..89,
\* C iff 70..79, D iff 60..69, F iff below 60, and no other grade is returned.
C5_GradeByScore ==
  response.kind = "result" =>
    LET sc == response.score
        g == response.grade
    IN /\ g \in {"A", "B", "C", "D", "F"}
       /\ g = "A" <=> sc >= 90
       /\ g = "B" <=> (sc >= 80 /\ sc < 90)
       /\ g = "C" <=> (sc >= 70 /\ sc < 80)
       /\ g = "D" <=> (sc >= 60 /\ sc < 70)
       /\ g = "F" <=> sc < 60

\* a result on a threshold
C5_Witness == Returned /\ response.score = 70 /\ response.grade = "C"

\* C6: in every result the summary counts, per severity, the findings of that
\* severity, and the five counts add up to the number of findings.
C6_SummaryPartition ==
  response.kind = "result" =>
    /\ DOMAIN response.summary = Severities
    /\ \A s \in Severities :
         response.summary[s] = CountSeverity(response.findings, s)
    /\ response.summary["critical"] + response.summary["high"] + response.summary["medium"]
         + response.summary["low"] + response.summary["info"] = Len(response.findings)

\* a result with findings of three severities, two of them critical
C6_Witness ==
  /\ Returned
  /\ response.summary["critical"] >= 2
  /\ response.summary["high"] >= 1
  /\ response.summary["medium"] >= 1

\* C7: a request repeated with the same text and locale, whatever was served since
\* the first time, gets a result with the same findings, summary, score and grade.
C7_Deterministic ==
  (pc = "responded" /\ prev.set /\ prev.req = req) =>
    /\ response.kind = "result"
    /\ response.findings = prev.response.findings
    /\ response.summary = prev.response.summary
    /\ response.score = prev.response.score
    /\ response.grade = prev.response.grade

\* a request answered again after other requests, with secrets among its findings
C7_Witness ==
  /\ Returned
  /\ prev.set
  /\ prev.others
  /\ prev.req = req
  /\ \E i \in 1..Len(response.findings) : response.findings[i].ruleId = "hardcoded-secret"

\* every line with write-all has exactly one excessive-permissions finding, a high one
WriteAllFlagged ==
  \A i \in 1..Len(lines) :
    Includes(lines[i], <<"w","r","i","t","e","-","a","l","l">>) =>
      /\ Cardinality(FindingsAt(response.findings, "excessive-permissions", i)) = 1
      /\ \A k \in FindingsAt(response.findings, "excessive-permissions", i) :
           response.findings[k].severity = "high"

\* C8 as stated: every document with a line containing write-all, parsed or not,
\* gets exactly one high excessive-permissions finding at each such line.
C8_Original == (pc = "responded" /\ LintCalled /\ TypedLocale) => WriteAllFlagged

\* C8: every document that parses gets exactly one high excessive-permissions
\* finding at each line containing write-all, permissions: write-all among them.
C8_WriteAllFlagged == (Returned /\ Accepted) => WriteAllFlagged

\* a parsed document with a permissions: write-all line and a step that only names the word
C8_Witness ==
  /\ Returned
  /\ Accepted
  /\ \E i \in 1..Len(lines) : lines[i] = <<"p","e","r","m","i","s","s","i","o","n","s",":"," ","w","r","i","t","e","-","a","l","l">>
  /\ \E i \in 1..Len(lines) :
       Includes(lines[i], <<"w","r","i","t","e","-","a","l","l">>) /\ ~Includes(lines[i], <<"p","e","r","m","i","s","s","i","o","n","s">>)

\* the line holds uses: <id>@<ref> where ref is one of the five names and ends there
ExactMutableRef(line, id, ref) ==
  \E i \in 0..Len(line) :
    LET idStart == i + 5 + WsRun(line, i + 5)
        refAt == idStart + Len(id) + 1
    IN /\ MatchAt(line, <<"u","s","e","s",":">>, i)
       /\ Len(id) >= 1
       /\ MatchAt(line, id, idStart)
       /\ \A k \in 1..Len(id) : id[k] \notin {"@", " ", "\t"}
       /\ MatchAt(line, <<"@">>, idStart + Len(id))
       /\ ref \in {<<"m","a","i","n">>, <<"m","a","s","t","e","r">>, <<"l","a","t","e","s","t">>, <<"d","e","v">>, <<"H","E","A","D">>}
       /\ MatchAt(line, ref, refAt)
       /\ (refAt + Len(ref) = Len(line) \/ IsWs(line[refAt + Len(ref) + 1]))

\* C9 as stated: a line has an unpinned-action finding iff it holds uses: <id>@<ref>
\* with ref exactly main, master, latest, dev or HEAD, and the finding reports id and ref.
C9_Original ==
  (Returned /\ Accepted) =>
    \A i \in 1..Len(lines) :
      /\ \A k \in FindingsAt(response.findings, "unpinned-action", i) :
           ExactMutableRef(lines[i], response.findings[k].args[1], response.findings[k].args[2])
      /\ (\E id \in {<<"a","c","t","i","o","n","s","/","c","h","e","c","k","o","u","t">>}, ref \in {<<"m","a","i","n">>, <<"H","E","A","D">>} :
            ExactMutableRef(lines[i], id, ref))
           => FindingsAt(response.findings, "unpinned-action", i) # {}

SecretsOf(fs, lineNum, name) ==
  {i \in 1..Len(fs) : fs[i].ruleId = "hardcoded-secret" /\ fs[i].line = lineNum
                      /\ fs[i].args = <<name>>}

\* C10: in a parsed document a line has a critical hardcoded-secret finding for a
\* pattern iff the line matches the pattern and does not contain ${{ secrets. ;
\* a line containing it has no hardcoded-secret finding.
C10_SecretUnlessContext ==
  (Returned /\ Accepted) =>
    \A i \in 1..Len(lines) : \A k \in 1..Len(store.secrets) :
      LET sp == store.secrets[k]
          hits == SecretsOf(response.findings, i, sp.name)
      IN /\ hits # {} <=> (SecretSearch(sp, lines[i], 0) >= 0
                           /\ ~Includes(lines[i], <<"$","{","{"," ","s","e","c","r","e","t","s",".">>))
         /\ Cardinality(hits) <= 1
         /\ \A h \in hits : response.findings[h].severity = "critical"

\* a parsed document with a key on a line of its own and a key beside ${{ secrets.
C10_Witness ==
  /\ Returned
  /\ Accepted
  /\ \E i, j \in 1..Len(lines) :
       /\ i < j
       /\ SecretSearch(AwsKeyPattern, lines[i], 0) >= 0
       /\ Includes(lines[i], <<"$","{","{"," ","s","e","c","r","e","t","s",".">>)
       /\ SecretSearch(AwsKeyPattern, lines[j], 0) >= 0
       /\ ~Includes(lines[j], <<"$","{","{"," ","s","e","c","r","e","t","s",".">>)


\* the findings of one call on a document that parses, with the data sets s, before
\* the texts of the locale are read, and whether the call threw
LintOf(doc, s) ==
  LET ls == LinesOf(doc)
      st == StructuralChecks(YAMLParse(doc).value, ls, s)
      sc == ScanLines(ls, 1, s, [k \in 1..Len(s.secrets) |-> 0])
      gl == GlobPass(ls, 1, GlobInit)
      wi == WithPass(ls, 1, WithInit, s.actions)
      ev == OnPass(ls, 1, OnInit, s.eventKeys)
  IN [threw |-> st.threw, structural |-> st.fs, scan |-> sc.fs, globs |-> gl.fs,
      inputs |-> wi.fs, events |-> ev.fs,
      fs |-> st.fs \o sc.fs \o gl.fs \o wi.fs \o ev.fs]


\* the handler has answered a request whose text parses and whose locale is a declared one
Answered == pc = "responded" /\ Accepted /\ TypedLocale

\* the text of a trimmed line before its first colon, <<>> if it has none
KeyOf(line) ==
  LET t == Trim(line)
      at == IndexOf(t, <<":">>)
  IN IF at <= 0 THEN <<>> ELSE SubSeq(t, 1, at)

\* line j is a bare E: line under the on: line i, and line k is a K: line directly under it
NestedUnder(ls, i, j, k) ==
  /\ i < j /\ j < k
  /\ Trim(ls[i]) = <<"o","n",":">>
  /\ Trim(ls[j]) = KeyOf(ls[j]) \o <<":">>
  /\ KeyOf(ls[j]) # <<>>
  /\ KeyOf(ls[k]) # <<>>
  /\ \A c \in 1..Len(KeyOf(ls[k])) : KeyOf(ls[k])[c] \notin {" ", "-", "#", "'"}
  /\ SearchNonWs(ls[i]) < SearchNonWs(ls[j])
  /\ SearchNonWs(ls[j]) < SearchNonWs(ls[k])
  /\ \A m \in (i + 1)..(j - 1) : SearchNonWs(ls[m]) >= SearchNonWs(ls[j])
  /\ \A m \in (j + 1)..(k - 1) : SearchNonWs(ls[m]) >= SearchNonWs(ls[k])

\* the key set the data give for event E, empty when they give none
KeySetOf(E) == IF Has(store.eventKeys, E) THEN Get(store.eventKeys, E) ELSE <<>>

\* C11 as stated: a key K directly under a bare event line E under on: has an
\* unknown-event-key finding (high) naming K and E at its line when the key set of E
\* is non-empty and lacks K, and none when the key set has K or is empty.
C11_Original ==
  (Returned /\ Answered) =>
    \A i, j, k \in 1..Len(lines) :
      NestedUnder(lines, i, j, k) =>
        LET E == KeyOf(lines[j])
            K == KeyOf(lines[k])
            at == FindingsAt(response.findings, "unknown-event-key", k)
        IN IF KeySetOf(E) # <<>> /\ ~InList(K, KeySetOf(E))
           THEN \E f \in at : /\ response.findings[f].severity = "high"
                              /\ response.findings[f].args = <<K, E>>
           ELSE at = {}


\* the number of blank-separated fields of a text
Fields(text) ==
  Cardinality({i \in 1..Len(text) : text[i] # " " /\ (i = 1 \/ text[i - 1] = " ")})

\* the cron values of the entries of a sequence-typed on.schedule, <<>> for another schedule
CronsOf(w) ==
  LET sched == Prop(Prop(w, <<"o","n">>), <<"s","c","h","e","d","u","l","e">>)
  IN IF sched.t = "array"
     THEN [e \in 1..Len(sched.kids) |-> Prop(sched.kids[e].v, <<"c","r","o","n">>)]
     ELSE <<>>

CronFindings(fs) == {f \in 1..Len(fs) : fs[f].ruleId = "invalid-cron"}

\* C12: for the entries of a sequence-typed on.schedule that carry a cron text, one
\* invalid-cron finding (high) is emitted per entry whose text does not split into
\* exactly 5 blank-separated fields, and none for the others.
C12_CronFields ==
  (Returned /\ Answered) =>
    LET crons == CronsOf(workflow)
        texts == {e \in 1..Len(crons) : crons[e].t = "string" /\ crons[e].s # <<>>}
        fs == response.findings
    IN /\ \A e \in texts :
            Cardinality({f \in CronFindings(fs) : fs[f].args = <<crons[e].s>>})
              = Cardinality({x \in texts : crons[x] = crons[e] /\ Fields(crons[x].s) # 5})
       /\ Cardinality(CronFindings(fs))
            = Cardinality({e \in texts : Fields(crons[e].s) # 5})
       /\ \A f \in CronFindings(fs) : fs[f].severity = "high"

\* a schedule with an entry of 5 fields, which has no finding, and one of 3, which has one
C12_Witness ==
  /\ Returned
  /\ Answered
  /\ \E e \in 1..Len(CronsOf(workflow)) : CronsOf(workflow)[e] = VStr(<<"0"," ","0"," ","*"," ","*"," ","0">>)
  /\ \E f \in CronFindings(response.findings) : response.findings[f].args = <<<<"*"," ","*"," ","*">>>>
  /\ Cardinality(CronFindings(response.findings)) = 1


\* the data sets whose absence the rules tolerate, and the rule that reads each
Optional == {"events", "permissions", "secrets", "contexts", "actions", "eventKeys"}

RuleOf(d) ==
  CASE d = "events" -> "invalid-event"
    [] d = "permissions" -> "invalid-permission"
    [] d = "secrets" -> "hardcoded-secret"
    [] d = "contexts" -> "expression-injection"
    [] d = "actions" -> "invalid-action-input"
    [] d = "eventKeys" -> "unknown-event-key"

Except(fs, ruleId) == SelectSeq(fs, LAMBDA f : f.ruleId # ruleId)

\* C13: when one of the data sets of events, permission scopes, secret patterns,
\* contexts, action inputs or event keys is empty or missing, a call that returns a
\* result with the data set present still returns one, with no finding of the rule
\* that reads the data set and with the same findings of every other rule.
C13_MissingDataDisablesRule ==
  (pc = "responded" /\ Accepted /\ TypedLocale) =>
    \A d \in Optional :
      store[d] = <<>> =>
        LET with == LintOf(req.doc, [store EXCEPT ![d] = FullStore[d]])
        IN ~with.threw =>
             /\ response.kind = "result"
             /\ \A f \in 1..Len(response.findings) : response.findings[f].ruleId # RuleOf(d)
             /\ response.findings = Localise(Except(with.fs, RuleOf(d)), req.locale)

\* the event keys are missing, and the document has a key the full data reject and
\* findings of other rules
C13_Witness ==
  /\ Returned
  /\ Answered
  /\ store = [FullStore EXCEPT !.eventKeys = <<>>]
  /\ \E f \in 1..Len(LintOf(req.doc, FullStore).fs) :
       LintOf(req.doc, FullStore).fs[f].ruleId = "unknown-event-key"
  /\ \E f \in 1..Len(response.findings) : response.findings[f].ruleId = "invalid-action-input"


\* C14 as stated: a runs-on line has an invalid-runner finding (medium) only when its
\* value is no template expression, no matrix reference, and absent from a non-empty
\* runner list; when the runner list is empty or missing, no line has one.
C14_Original ==
  (Returned /\ Answered) =>
    \A i \in 1..Len(lines) :
      LET value == RunnerName(RunnerToken(lines[i]))
          at == FindingsAt(response.findings, "invalid-runner", i)
      IN /\ at # {} =>
              /\ RunnerToken(lines[i]) # <<>>
              /\ ~Includes(value, <<"$","{","{">>)
              /\ ~Includes(value, <<"m","a","t","r","i","x",".">>)
              /\ store.runners # <<>>
              /\ ~InList(value, store.runners)
         /\ \A f \in at : response.findings[f].severity = "medium"
         /\ store.runners = <<>> => at = {}


RulesSeen(fs) == {fs[f].ruleId : f \in 1..Len(fs)}

\* C15 as stated: for every document that parses the call returns a result, whatever
\* the types in the parsed tree, and a field of the wrong type (a non-mapping on,
\* permissions or jobs, a non-sequence schedule, a cron that is no text) has its
\* check skipped and no finding of it.
C15_Original ==
  (pc = "responded" /\ Accepted /\ TypedLocale) =>
    LET on == Prop(workflow, <<"o","n">>)
        sched == Prop(on, <<"s","c","h","e","d","u","l","e">>)
        seen == RulesSeen(response.findings)
    IN /\ response.kind = "result"
       /\ on.t # "map" => "invalid-event" \notin seen
       /\ sched.t # "array" => "invalid-cron" \notin seen
       /\ Prop(workflow, <<"p","e","r","m","i","s","s","i","o","n","s">>).t # "map"
            => seen \cap {"invalid-permission", "invalid-permission-level"} = {}
       /\ Prop(workflow, <<"j","o","b","s">>).t # "map"
            => seen \cap {"missing-runs-on", "missing-steps"} = {}


\* C16 as stated: a request whose code is absent, empty or no text is answered 400 with
\* no findings, and every request whose code is a non-empty text, with any locale and
\* any content, is answered with a result, never with an error.
C16_Original ==
  pc = "responded" =>
    IF LintCalled
    THEN response.kind = "result"
    ELSE /\ response.kind = "error"
         /\ response.status = 400
         /\ response.findings = <<>>


StructuralRules ==
  {"missing-jobs", "invalid-event", "invalid-permission", "invalid-permission-level",
   "invalid-cron", "missing-runs-on", "missing-steps"}

\* the place of a rule's pass in the order the claim states: structure, A, B, C, per-line
StatedRank(ruleId) ==
  CASE ruleId \in StructuralRules -> 1
    [] ruleId = "invalid-glob-pattern" -> 2
    [] ruleId = "invalid-action-input" -> 3
    [] ruleId = "unknown-event-key" -> 4
    [] OTHER -> 5

\* the place of a rule's pass in the order: structure, per-line, A, B, C
RunRank(ruleId) ==
  CASE ruleId \in StructuralRules -> 1
    [] ruleId = "invalid-glob-pattern" -> 3
    [] ruleId = "invalid-action-input" -> 4
    [] ruleId = "unknown-event-key" -> 5
    [] OTHER -> 2

\* C17 as stated: the findings of a parsed document are in the order structure,
\* Pass A, Pass B, Pass C, per-line checks, each line pass in non-decreasing line order.
C17_Original ==
  (Returned /\ Answered) =>
    \A i, j \in 1..Len(response.findings) :
      i < j =>
        LET a == response.findings[i]
            b == response.findings[j]
        IN /\ StatedRank(a.ruleId) <= StatedRank(b.ruleId)
           /\ (StatedRank(a.ruleId) = StatedRank(b.ruleId) /\ StatedRank(a.ruleId) > 1)
                => a.line <= b.line

\* C17: the findings of a parsed document are in the order the passes run: structure,
\* per-line checks, Pass A, Pass B, Pass C; each line pass is in non-decreasing line
\* order, and the list returned is the findings of the passes one after the other.
C17_PassOrder ==
  (Returned /\ Answered) =>
    /\ \A i, j \in 1..Len(response.findings) :
         i < j =>
           LET a == response.findings[i]
               b == response.findings[j]
           IN /\ RunRank(a.ruleId) <= RunRank(b.ruleId)
              /\ (RunRank(a.ruleId) = RunRank(b.ruleId) /\ RunRank(a.ruleId) > 1)
                   => a.line <= b.line
    /\ LET out == LintOf(req.doc, store)
       IN response.findings =
            Localise(out.structural \o out.scan \o out.globs \o out.inputs \o out.events,
                     req.locale)

\* a result with findings of all five passes, a per-line one on a later line than a glob one
C17_Witness ==
  /\ Returned
  /\ Answered
  /\ {RunRank(r) : r \in RulesSeen(response.findings)} = 1..5
  /\ \E i, j \in 1..Len(response.findings) :
       /\ i < j
       /\ response.findings[i].ruleId = "unpinned-action"
       /\ response.findings[j].ruleId = "invalid-glob-pattern"
       /\ response.findings[j].line < response.findings[i].line


\* the line of the first line whose trimmed text starts with key:, 1 if there is none
FirstLineOf(ls, key) ==
  IF \E i \in 1..Len(ls) : StartsWith(Trim(ls[i]), key \o <<":">>)
  THEN CHOOSE i \in 1..Len(ls) :
         /\ StartsWith(Trim(ls[i]), key \o <<":">>)
         /\ \A j \in 1..(i - 1) : ~StartsWith(Trim(ls[j]), key \o <<":">>)
  ELSE 1

JobFindings(fs, ruleId, jobName) ==
  {f \in 1..Len(fs) : fs[f].ruleId = ruleId /\ fs[f].args = <<jobName>>}

\* C18 as stated: for every job of a mapping-typed jobs, a job that declares uses has
\* neither finding; another job has missing-runs-on (high) iff it has no runs-on and
\* missing-steps (high) iff it has no steps, each at most once and at the first line
\* whose trimmed text starts with the job's name and a colon (line 1 if none).
C18_Original ==
  (Returned /\ Answered /\ Prop(workflow, <<"j","o","b","s">>).t = "map") =>
    LET jobs == Prop(workflow, <<"j","o","b","s">>).kids
        fs == response.findings
    IN \A e \in 1..Len(jobs) :
         LET job == jobs[e].v
             noRunsOn == JobFindings(fs, "missing-runs-on", jobs[e].k)
             noSteps == JobFindings(fs, "missing-steps", jobs[e].k)
         IN IF Truthy(Prop(job, <<"u","s","e","s">>))
            THEN noRunsOn = {} /\ noSteps = {}
            ELSE /\ noRunsOn # {} <=> ~Truthy(Prop(job, <<"r","u","n","s","-","o","n">>))
                 /\ noSteps # {} <=> ~Truthy(Prop(job, <<"s","t","e","p","s">>))
                 /\ Cardinality(noRunsOn) <= 1
                 /\ Cardinality(noSteps) <= 1
                 /\ \A f \in noRunsOn \cup noSteps :
                      /\ fs[f].severity = "high"
                      /\ fs[f].line = FirstLineOf(lines, jobs[e].k)


\* C19 as stated: a parsed document has exactly one missing-jobs finding (high) when
\* it has no top-level jobs mapping (the key absent, null, or no mapping) and none
\* otherwise; the finding is at the first line whose trimmed text starts with on:,
\* or at line 1.
C19_Original ==
  (Returned /\ Answered) =>
    LET fs == response.findings
        missing == {f \in 1..Len(fs) : fs[f].ruleId = "missing-jobs"}
    IN IF Prop(workflow, <<"j","o","b","s">>).t # "map"
       THEN /\ Cardinality(missing) = 1
            /\ \A f \in missing : /\ fs[f].severity = "high"
                                  /\ fs[f].line = FirstLineOf(lines, <<"o","n">>)
       ELSE missing = {}


\* C20 as stated: only a mapping-typed top-level permissions has permission findings;
\* for each of its entries invalid-permission (high) is emitted iff the scope list is
\* non-empty and lacks the scope, and invalid-permission-level (medium) iff the level
\* is not read, write or none, whatever the type of the level.
C20_Original ==
  (Returned /\ Answered) =>
    LET perms == Prop(workflow, <<"p","e","r","m","i","s","s","i","o","n","s">>)
        fs == response.findings
        scopes == {f \in 1..Len(fs) : fs[f].ruleId = "invalid-permission"}
        levels == {f \in 1..Len(fs) : fs[f].ruleId = "invalid-permission-level"}
        badLevel(v) == ~(v.t = "string" /\ v.s \in {<<"r","e","a","d">>, <<"w","r","i","t","e">>, <<"n","o","n","e">>})
    IN IF perms.t # "map"
       THEN scopes = {} /\ levels = {}
       ELSE /\ \A e \in 1..Len(perms.kids) :
                 (\E f \in scopes : fs[f].args = <<perms.kids[e].k>>)
                   <=> (store.permissions # <<>> /\ ~InList(perms.kids[e].k, store.permissions))
            /\ Cardinality(scopes)
                 = Cardinality({e \in 1..Len(perms.kids) :
                                  store.permissions # <<>>
                                  /\ ~InList(perms.kids[e].k, store.permissions)})
            /\ Cardinality(levels)
                 = Cardinality({e \in 1..Len(perms.kids) : badLevel(perms.kids[e].v)})
            /\ \A f \in scopes : fs[f].severity = "high"
            /\ \A f \in levels : fs[f].severity = "medium"


\* C21 as stated: every finding of every result is at a position of the text, counted
\* from 1: its line is between 1 and the number of lines, and its column is at least 1.
C21_Original ==
  Returned =>
    \A f \in 1..Len(response.findings) :
      /\ 1 <= response.findings[f].line
      /\ response.findings[f].line <= Len(lines)
      /\ response.findings[f].column >= 1


\* the text of the example request of the README (sync-data.ts:702)
ReadmeLines ==
  <<<<"o","n",":">>, <<" "," ","p","u","s","h",":">>, <<" "," "," "," ","b","r","a","n","c","h",":"," ","m","a","i","n">>, <<"j","o","b","s",":">>, <<" "," ","t","e","s","t",":">>, <<" "," "," "," ","r","u","n","s","-","o","n",":"," ","u","b","u","n","t","u","-","l","a","t","e","s","t">>>>

\* the example request has been answered, by a handler whose runner list has ubuntu-latest
ReadmeAnswered ==
  /\ pc = "responded"
  /\ lines = ReadmeLines
  /\ req.locale = "en"
  /\ InList(UbuntuLatest, store.runners)

Live(line) == Trim(line) # <<>> /\ ~StartsWith(Trim(line), <<"#">>)

\* a line whose trimmed text is a list item
IsItem(line) == StartsWith(Trim(line), <<"-">>)

\* a line whose trimmed text is the name of a filter followed by a colon
IsGlobHeader(line) ==
  \E name \in {<<"b","r","a","n","c","h","e","s">>, <<"b","r","a","n","c","h","e","s","-","i","g","n","o","r","e">>, <<"t","a","g","s">>, <<"t","a","g","s","-","i","g","n","o","r","e">>, <<"p","a","t","h","s">>, <<"p","a","t","h","s","-","i","g","n","o","r","e">>} :
    Trim(line) = name \o <<":">>

\* line i is inside a glob section: since the latest header up to line i, no line that is
\* live and no list item has an indent of at most the indent of that header
InGlobSection(ls, i) ==
  \E h \in 1..i :
    /\ IsGlobHeader(ls[h])
    /\ \A m \in (h + 1)..i :
         /\ ~IsGlobHeader(ls[m])
         /\ ~(Live(ls[m]) /\ ~IsItem(ls[m]) /\ SearchNonWs(ls[m]) <= SearchNonWs(ls[h]))

\* the text of a list item after its dash
ItemText(line) == Tail(Trim(line))

\* the positions in a text of the escapes \d \D \w \W \s \S, and the leftmost escape
EscapesOf(text) ==
  {i \in 1..(Len(text) - 1) : text[i] = "\\" /\ text[i + 1] \in {"d", "D", "w", "W", "s", "S"}}

FirstEscape(text) ==
  LET at == CHOOSE i \in EscapesOf(text) : \A j \in EscapesOf(text) : i <= j
  IN <<text[at], text[at + 1]>>

\* C23: after each line the glob tracker is inside a section exactly when the line is
\* at or after a filter header (branches, branches-ignore, tags, tags-ignore, paths,
\* paths-ignore followed by a colon) with no later non-empty, non-comment, non-item
\* line of indent <= the header's indent up to it; a list item has an
\* invalid-glob-pattern finding (high) iff it is inside a section and its pattern has
\* one of the escapes, and then exactly one, naming the leftmost escape of the line.
C23_GlobSections ==
  (Returned /\ Answered) =>
    /\ Len(globTrace) = Len(lines)
    /\ \A i \in 1..Len(lines) :
         LET at == FindingsAt(response.findings, "invalid-glob-pattern", i)
         IN /\ globTrace[i].inGlobSection <=> InGlobSection(lines, i)
            /\ at # {} <=> /\ IsItem(lines[i])
                           /\ InGlobSection(lines, i)
                           /\ EscapesOf(ItemText(lines[i])) # {}
            /\ Cardinality(at) <= 1
            /\ \A f \in at :
                 /\ response.findings[f].severity = "high"
                 /\ response.findings[f].args = <<FirstEscape(ItemText(lines[i]))>>

\* a result for a text with an item of two escapes flagged after a comment and a blank
\* line of its section, and an item with an escape after the section's end not flagged
C23_Witness ==
  /\ Returned
  /\ Answered
  /\ \E h, c, b, i, j \in 1..Len(lines) :
       /\ h < c /\ c < i /\ h < b /\ b < i /\ i < j
       /\ IsGlobHeader(lines[h])
       /\ StartsWith(Trim(lines[c]), <<"#">>)
       /\ Trim(lines[b]) = <<>>
       /\ \A m \in h..i : globTrace[m].inGlobSection
       /\ Cardinality(EscapesOf(ItemText(lines[i]))) >= 2
       /\ FindingsAt(response.findings, "invalid-glob-pattern", i) # {}
       /\ IsItem(lines[j])
       /\ EscapesOf(ItemText(lines[j])) # {}
       /\ ~globTrace[j].inGlobSection
       /\ FindingsAt(response.findings, "invalid-glob-pattern", j) = {}


\* line i is a direct child of line w: it is live, indented more than w, and no live
\* line between them is indented less than it
DirectChildOf(ls, w, i) ==
  /\ w < i
  /\ Live(ls[i])
  /\ SearchNonWs(ls[i]) > SearchNonWs(ls[w])
  /\ \A m \in (w + 1)..(i - 1) : Live(ls[m]) => SearchNonWs(ls[m]) >= SearchNonWs(ls[i])

\* the action of the latest line before line w that reads uses: id@ref, NoName if none
OwnerOf(ls, w) ==
  LET us == {u \in 1..(w - 1) : UsesAction(Trim(ls[u])) # NoName}
  IN IF us = {} THEN NoName
     ELSE UsesAction(Trim(ls[CHOOSE u \in us : \A v \in us : v <= u]))

\* line i is a key of the with-block opened at the bare with: line w, and the schema of
\* the block's action lacks it
UnknownInput(ls, w, i) ==
  /\ Trim(ls[w]) = <<"w","i","t","h",":">>
  /\ DirectChildOf(ls, w, i)
  /\ KeyOf(ls[i]) # <<>>
  /\ Has(store.actions, OwnerOf(ls, w))
  /\ ~InList(KeyOf(ls[i]), Get(store.actions, OwnerOf(ls, w)))

\* C24 as stated: a line has an invalid-action-input finding iff it is a direct child
\* key of a with-block opened by a bare with: line, the action of the block has an entry
\* in the action schema, and the key is not among the inputs of that entry; lines nested
\* deeper in the block and blocks of actions without an entry have none.
C24_Original ==
  (Returned /\ Answered) =>
    \A i \in 1..Len(lines) :
      FindingsAt(response.findings, "invalid-action-input", i) # {}
        <=> \E w \in 1..(i - 1) : UnknownInput(lines, w, i)


\* line m ends the with-block opened at line w: it is live, indented at most as w, and
\* does not start with with:
EndsWith(ls, w, m) ==
  /\ Live(ls[m])
  /\ SearchNonWs(ls[m]) <= SearchNonWs(ls[w])
  /\ ~StartsWith(Trim(ls[m]), <<"w","i","t","h",":">>)

\* line i is in the with-block opened at the bare with: line w, which comes after a
\* line that reads uses: id@ref
InBlockOf(ls, w, i) ==
  /\ w <= i
  /\ Trim(ls[w]) = <<"w","i","t","h",":">>
  /\ OwnerOf(ls, w) # NoName
  /\ \A m \in (w + 1)..i : ~EndsWith(ls, w, m)

\* C25 as stated: the with tracker is inside a block only from a bare with: line that
\* comes after a line reading uses: id@ref; a block once entered lasts until the first
\* later non-empty, non-comment line of indent <= the indent of its with: line that
\* does not start with with:; and that line and the lines after it, up to the next
\* block, have no invalid-action-input finding.
C25_Original ==
  (Returned /\ Answered) =>
    /\ Len(withTrace) = Len(lines)
    /\ \A i \in 1..Len(lines) :
         /\ withTrace[i].inWithBlock => \E w \in 1..i : InBlockOf(lines, w, i)
         /\ FindingsAt(response.findings, "invalid-action-input", i) # {}
              => \E w \in 1..i : InBlockOf(lines, w, i)
    /\ \A w, i \in 1..Len(lines) :
         (withTrace[w].inWithBlock /\ InBlockOf(lines, w, i)) => withTrace[i].inWithBlock


\* line e is a bare name: line whose name has an entry in the event-key data
IsEventLine(line) ==
  /\ KeyOf(line) # <<>>
  /\ Trim(line) = KeyOf(line) \o <<":">>
  /\ Has(store.eventKeys, KeyOf(line))

\* line k is inside the on: block opened at line o
InOnBlockOf(ls, o, k) ==
  /\ o < k
  /\ StartsWith(Trim(ls[o]), <<"o","n",":">>)
  /\ \A m \in (o + 1)..k : ~(Live(ls[m]) /\ SearchNonWs(ls[m]) <= SearchNonWs(ls[o]))

\* C26 as stated: every unknown-event-key finding is on a line inside the on: block
\* that is a direct child of the most recent bare event line of the block; lines nested
\* deeper below the event, lines at the event's own indent and lines outside the block
\* have none.
C26_Original ==
  (Returned /\ Answered) =>
    \A k \in 1..Len(lines) :
      FindingsAt(response.findings, "unknown-event-key", k) # {} =>
        \E o, e \in 1..Len(lines) :
          /\ o < e /\ e < k
          /\ InOnBlockOf(lines, o, k)
          /\ IsEventLine(lines[e])
          /\ \A m \in (e + 1)..(k - 1) : ~IsEventLine(lines[m])
          /\ DirectChildOf(lines, e, k)


\* the dangerous contexts a line names, as positions of the context list
ContextsIn(line) == {c \in 1..Len(store.contexts) : Includes(line, store.contexts[c])}

\* the line has run: somewhere, or its trimmed text starts with echo and a blank
IsScriptLine(line) == Includes(line, <<"r","u","n",":">>) \/ StartsWith(Trim(line), <<"e","c","h","o"," ">>)

\* C27: in every parsed document a line has expression-injection findings iff it has
\* run: or its trimmed text starts with echo and a blank, and then exactly one
\* (critical) for each dangerous context that occurs in the line, whatever the section
\* trackers hold at the line; a line with neither has none.  A result with nothing but
\* n such findings has score 100 - 25n, or 0 below that.
C27_InjectionPerLine ==
  (Returned /\ Answered) =>
    /\ \A i \in 1..Len(lines) :
         LET fs == response.findings
             at == FindingsAt(fs, "expression-injection", i)
         IN /\ IsScriptLine(lines[i]) =>
                 /\ Cardinality(at) = Cardinality(ContextsIn(lines[i]))
                 /\ \A c \in ContextsIn(lines[i]) :
                      Cardinality({f \in at : fs[f].args = <<store.contexts[c]>>}) = 1
            /\ ~IsScriptLine(lines[i]) => at = {}
            /\ \A f \in at : fs[f].severity = "critical"
    /\ (\A f \in 1..Len(response.findings) : response.findings[f].ruleId = "expression-injection")
         => response.score = IF 25 * Len(response.findings) > 100 THEN 0
                             ELSE 100 - 25 * Len(response.findings)

\* a result for a text with a line naming two contexts and flagged twice, a line naming
\* a context without run: or echo and not flagged, and a line flagged inside a with-block
C27_Witness ==
  /\ Returned
  /\ Answered
  /\ \E i, j, k \in 1..Len(lines) :
       /\ Cardinality(ContextsIn(lines[i])) = 2
       /\ Cardinality(FindingsAt(response.findings, "expression-injection", i)) = 2
       /\ ~Includes(lines[i], <<"r","u","n",":">>)
       /\ ContextsIn(lines[j]) # {}
       /\ ~IsScriptLine(lines[j])
       /\ FindingsAt(response.findings, "expression-injection", j) = {}
       /\ withTrace[k].inWithBlock
       /\ FindingsAt(response.findings, "expression-injection", k) # {}
  /\ \A f \in 1..Len(response.findings) : response.findings[f].ruleId = "expression-injection"


\* C28 as stated: every invalid-glob-pattern finding is on a list item of a glob
\* section: a filter header comes before it with indent <= the item's indent, and no
\* non-blank, non-comment line between them has indent <= the header's indent.
C28_Original ==
  (Returned /\ Answered) =>
    \A k \in 1..Len(lines) :
      FindingsAt(response.findings, "invalid-glob-pattern", k) # {} =>
        /\ IsItem(lines[k])
        /\ \E h \in 1..(k - 1) :
             /\ IsGlobHeader(lines[h])
             /\ SearchNonWs(lines[h]) <= SearchNonWs(lines[k])
             /\ \A m \in (h + 1)..(k - 1) :
                  ~(Live(lines[m]) /\ SearchNonWs(lines[m]) <= SearchNonWs(lines[h]))


\* a line that gives the action of a step: uses: after an optional dash
IsUsesLine(line) ==
  LET t == Trim(line)
  IN StartsWith(t, <<"u","s","e","s",":">>) \/ (StartsWith(t, <<"-">>) /\ StartsWith(Trim(Tail(t)), <<"u","s","e","s",":">>))

\* the action a uses: line names: its value up to the @ of the ref, if it has one
ActionOf(line) ==
  LET t == Trim(line)
      value == Trim(SubSeq(t, IndexOf(t, <<"u","s","e","s",":">>) + 6, Len(t)))
  IN SubSeq(value, 1, RunLenNot(value, 0, {"@"}))

\* C29 as stated: every invalid-action-input finding names the action of the nearest
\* uses: line before its line, also when that line has no @ref.
C29_Original ==
  (Returned /\ Answered) =>
    \A f \in 1..Len(response.findings) :
      response.findings[f].ruleId = "invalid-action-input" =>
        \E u \in 1..(response.findings[f].line - 1) :
          /\ IsUsesLine(lines[u])
          /\ \A m \in (u + 1)..(response.findings[f].line - 1) : ~IsUsesLine(lines[m])
          /\ response.findings[f].args[2] = ActionOf(lines[u])


\* the with tracker, resp. the on tracker, was inside its block before line i and is
\* outside after it
LeavesWith(i) == i > 1 /\ withTrace[i - 1].inWithBlock /\ ~withTrace[i].inWithBlock
LeavesOn(i) == i > 1 /\ onTrace[i - 1].inOnBlock /\ ~onTrace[i].inOnBlock

\* C30 as stated: after every line, inWithBlock implies that currentAction is set, and
\* leaving the with-block clears currentAction; currentEvent set implies inOnBlock, and
\* leaving the on: block clears currentEvent.
C30_Original ==
  /\ \A i \in 1..Len(withTrace) :
       /\ withTrace[i].inWithBlock => withTrace[i].currentAction # NoName
       /\ LeavesWith(i) => withTrace[i].currentAction = NoName
  /\ \A i \in 1..Len(onTrace) :
       /\ onTrace[i].currentEvent # NoName => onTrace[i].inOnBlock
       /\ LeavesOn(i) => onTrace[i].currentEvent = NoName

\* C30: after every line, inWithBlock implies that currentAction is set; a line that
\* leaves the with-block clears currentAction unless it reads uses: id@ref, and then
\* currentAction is the action of that line; currentEvent set implies inOnBlock, and
\* leaving the on: block clears currentEvent.
C30_TrackerInvariants ==
  /\ \A i \in 1..Len(withTrace) :
       /\ withTrace[i].inWithBlock => withTrace[i].currentAction # NoName
       /\ LeavesWith(i) =>
            withTrace[i].currentAction = UsesAction(Trim(lines[i]))
  /\ \A i \in 1..Len(onTrace) :
       /\ onTrace[i].currentEvent # NoName => onTrace[i].inOnBlock
       /\ LeavesOn(i) => onTrace[i].currentEvent = NoName

\* both trackers have run over a text where a with-block is left by a uses: line and
\* another by a less indented step, and the on: block is left with an event active
C30_Witness ==
  /\ Len(withTrace) = Len(lines)
  /\ Len(onTrace) = Len(lines)
  /\ \E i, j, k \in 1..Len(lines) :
       /\ LeavesWith(i)
       /\ withTrace[i].currentAction # NoName
       /\ LeavesWith(j)
       /\ withTrace[j].currentAction = NoName
       /\ withTrace[j - 1].currentAction # NoName
       /\ LeavesOn(k)
       /\ onTrace[k - 1].currentEvent # NoName


=============================================================================
